---- MODULE Spec2Model ----
(***************************************************************************)
(* OCR import pipeline of fichas: the OcrJob row, the worker               *)
(* process_ocr_job, the status poll fichas_importar_status_poll (the lazy  *)
(* timeout watchdog) and the submission handler.                           *)
(*                                                                         *)
(* Database writes go through a SQLAlchemy session: an object is loaded    *)
(* (SELECT), attributes are assigned in memory, and commit() flushes an    *)
(* UPDATE ... WHERE id = :id that carries exactly the columns whose value  *)
(* differs from the loaded one.  No statement is conditional on the        *)
(* status column.  Each session is modelled by the pair (loaded, cur).     *)
(*                                                                         *)
(* Environment: PostgreSQL (settings.DATABASE_URL default) with a UTC      *)
(* session time zone, timestamps in whole seconds; one worker run at a     *)
(* time per job (the queue redelivers after a crash or after a finished    *)
(* run), any number of polls in sequence, each of them interleaved freely  *)
(* with the worker.  Failures of the database statements themselves are    *)
(* not modelled.                                                           *)
(***************************************************************************)
EXTENDS Integers, FiniteSets, Sequences, TLC

\* ---------------------------------------------------------------- bounds
MaxTicks == 3
MaxDeliveries == 3
\* configured provider timeouts range over -MaxSetting..MaxSetting
MaxSetting == 700

\* ------------------------------------------------------ program constants
OCR_TIMEOUT_SECONDS == 180
WATCHDOG_MARGIN == 120
TIMEOUT_MESSAGE == "OCR expirou ou foi interrompido. Reenvie o arquivo."

\* ------------------------------------------------------------ input sets
\* ids the submission handler allocates (uuid4 default of OcrJob.id)
SubmitIds == {"j1"}
\* ids that reach a worker or a poll without ever having had a row
StaleIds == {"j2"}
AllIds == SubmitIds \cup StaleIds
\* str(exc) of the exceptions the execute phase can raise
ExcMessages == {"E1", "E2"}
\* results of OCR + mapping (text, items and suggestions of one run)
OcrResults == {"r1", "r2"}
\* how far the wall clock moves between two observed instants
TickSteps == {1, OCR_TIMEOUT_SECONDS + WATCHDOG_MARGIN}

NULL == "NULL"
NoTime == -1

VARIABLES
    db,          \* table ocr_jobs: id -> row
    enqueued,    \* the "ocr" queue: job id -> job_timeout granted
    clock,       \* wall clock, seconds
    ticks,       \* number of clock advances so far
    spc,         \* submission handler: "idle" | "committed"
    sid,         \* id of the row the submission handler just committed
    wpc,         \* worker: "idle" | "start" | "loaded" | "committed" | "exec"
    wid,         \* job_id argument of the current worker run
    wloaded,     \* worker session: attribute values as loaded
    wcur,        \* worker session: attribute values as assigned
    outcome,     \* how the last worker run ended
    deliveries,  \* number of deliveries so far
    ppc,         \* poll: "idle" | "start" | "write"
    pid,         \* job_id of the current poll
    ploaded,     \* poll session: attribute values as loaded
    pcur,        \* poll session: attribute values as assigned
    presp,       \* last poll response
    settingTimeout, \* settings.OCR_TIMEOUT_SECONDS of the running process
    farg,        \* argument of the function under evaluation
    fres,        \* its result
    fpc,         \* "ready" | "done"
    suggestions, \* map_fields_to_ficha: (group, field) -> suggestion
    template,    \* the TemplateSchema argument: its fields, in order
    text,        \* the text argument: its lines
    ocr_items,   \* the ocr_items argument
    mpc,         \* position of the current map_fields_to_ficha run
    returned     \* what the runs so far returned: input -> suggestions

\* the variables of the function evaluations; the job machine leaves them
mapVars == <<suggestions, template, text, ocr_items, mpc, returned>>
labVars == <<farg, fres, fpc, mapVars>>

\* the variables of the job machine
jobVars == <<db, enqueued, clock, ticks, spc, sid, wpc, wid, wloaded, wcur,
             outcome, deliveries, ppc, pid, ploaded, pcur, presp>>

vars == <<db, enqueued, clock, ticks, spc, sid, wpc, wid, wloaded, wcur,
          outcome, deliveries, ppc, pid, ploaded, pcur, presp,
          settingTimeout, labVars>>

Fields == {"status", "extracted_text", "ocr_raw_json",
           "field_suggestions_json", "error_message",
           "started_at", "finished_at"}

\* OcrJob(status="queued") with every nullable column left NULL
NewJob ==
    [status |-> "queued",
     extracted_text |-> NULL,
     ocr_raw_json |-> NULL,
     field_suggestions_json |-> NULL,
     error_message |-> NULL,
     started_at |-> NoTime,
     finished_at |-> NoTime]

\* commit(): the UPDATE carries the columns whose assigned value differs
\* from the loaded one; the other columns of the row are left as they are
Flush(row, loaded, cur) ==
    [f \in Fields |-> IF cur[f] # loaded[f] THEN cur[f] ELSE row[f]]

\* the staleness limit of the poll
WatchdogLimit == OCR_TIMEOUT_SECONDS + WATCHDOG_MARGIN

\* variant: the limit itself already counts as expired
IsStaleInclusive(row, now) ==
    /\ row.status = "processing"
    /\ row.started_at # NoTime
    /\ now - row.started_at >= WatchdogLimit

IsStale(row, now) ==
    /\ row.status = "processing"
    /\ row.started_at # NoTime
    /\ now - row.started_at > WatchdogLimit

\* the job machine before any submission
JobInit ==
    /\ db = [j \in {} |-> NewJob]
    /\ enqueued = [j \in {} |-> 0]
    /\ clock = 0
    /\ ticks = 0
    /\ spc = "idle"
    /\ sid = "j1"
    /\ wpc = "idle"
    /\ wid = "j1"
    /\ wloaded = NewJob
    /\ wcur = NewJob
    /\ outcome = "none"
    /\ deliveries = 0
    /\ ppc = "idle"
    /\ pid = "j1"
    /\ ploaded = NewJob
    /\ pcur = NewJob
    /\ presp = "none"

\* no map_fields_to_ficha run in progress
MapIdle ==
    /\ suggestions = <<>>
    /\ template = <<>>
    /\ text = <<>>
    /\ ocr_items = <<>>
    /\ mpc = "idle"
    /\ returned = <<>>

\* no function evaluation in progress
LabIdle ==
    /\ farg = <<>>
    /\ fres = <<>>
    /\ fpc = "done"
    /\ MapIdle

Init ==
    /\ JobInit
    /\ settingTimeout = OCR_TIMEOUT_SECONDS
    /\ LabIdle

\* ------------------------------------------------------------ environment
Tick ==
    /\ ticks < MaxTicks
    /\ \E d \in TickSteps : clock' = clock + d
    /\ ticks' = ticks + 1
    /\ UNCHANGED <<db, enqueued, spc, sid, wpc, wid, wloaded, wcur, outcome,
                   deliveries, ppc, pid, ploaded, pcur, presp>>
    /\ UNCHANGED <<settingTimeout, labVars>>

\* ------------------------------------------------- fichas_importar_submit
QUEUE_TIMEOUT_FLOOR == 600
ENQUEUE_MARGIN == 120

\* variant: the floor of 600 is applied as a ceiling
QueueTimeoutMin(t) ==
    IF QUEUE_TIMEOUT_FLOOR <= t + ENQUEUE_MARGIN
    THEN QUEUE_TIMEOUT_FLOOR ELSE t + ENQUEUE_MARGIN

\* queue.py line 17: max(600, int(settings.OCR_TIMEOUT_SECONDS) + 120)
QueueTimeout(t) ==
    IF QUEUE_TIMEOUT_FLOOR >= t + ENQUEUE_MARGIN
    THEN QUEUE_TIMEOUT_FLOOR ELSE t + ENQUEUE_MARGIN

SubmitCommit ==
    /\ spc = "idle"
    /\ \E id \in SubmitIds \ DOMAIN db :
          /\ db' = [j \in DOMAIN db \cup {id} |->
                        IF j = id THEN NewJob ELSE db[j]]
          /\ sid' = id
    /\ spc' = "committed"
    /\ UNCHANGED <<enqueued, clock, ticks, wpc, wid, wloaded, wcur, outcome,
                   deliveries, ppc, pid, ploaded, pcur, presp>>
    /\ UNCHANGED <<settingTimeout, labVars>>

SubmitEnqueue ==
    /\ spc = "committed"
    /\ enqueued' = [j \in DOMAIN enqueued \cup {sid} |->
                        IF j = sid THEN QueueTimeout(settingTimeout)
                        ELSE enqueued[j]]
    /\ spc' = "idle"
    /\ UNCHANGED <<db, clock, ticks, sid, wpc, wid, wloaded, wcur, outcome,
                   deliveries, ppc, pid, ploaded, pcur, presp>>
    /\ UNCHANGED <<settingTimeout, labVars>>

\* ------------------------------------------------------------ the worker
\* the queue hands a job id to the idle worker (at-least-once delivery)
Deliver ==
    /\ wpc = "idle"
    /\ deliveries < MaxDeliveries
    /\ \E id \in DOMAIN enqueued \cup StaleIds : wid' = id
    /\ wpc' = "start"
    /\ deliveries' = deliveries + 1
    /\ outcome' = "none"
    /\ UNCHANGED <<db, enqueued, clock, ticks, spc, sid, wloaded, wcur,
                   ppc, pid, ploaded, pcur, presp>>
    /\ UNCHANGED <<settingTimeout, labVars>>

\* variant: the lookup raises when there is no row (scalar_one)
WorkerLoadStrict ==
    /\ wpc = "start"
    /\ IF wid \notin DOMAIN db
       THEN /\ wpc' = "idle"
            /\ outcome' = "raised"
            /\ wloaded' = NewJob
            /\ wcur' = NewJob
       ELSE /\ wloaded' = db[wid]
            /\ wcur' = [db[wid] EXCEPT !.status = "processing",
                                       !.started_at = clock]
            /\ wpc' = "loaded"
            /\ UNCHANGED outcome
    /\ UNCHANGED <<db, enqueued, clock, ticks, spc, sid, wid, deliveries,
                   ppc, pid, ploaded, pcur, presp>>
    /\ UNCHANGED <<settingTimeout, labVars>>

\* lines 25-29: load the row; return when there is none; otherwise assign
\* status and started_at in memory
WorkerLoad ==
    /\ wpc = "start"
    /\ IF wid \notin DOMAIN db
       THEN /\ wpc' = "idle"
            /\ outcome' = "returned"
            /\ wloaded' = NewJob
            /\ wcur' = NewJob
       ELSE /\ wloaded' = db[wid]
            /\ wcur' = [db[wid] EXCEPT !.status = "processing",
                                       !.started_at = clock]
            /\ wpc' = "loaded"
            /\ UNCHANGED outcome
    /\ UNCHANGED <<db, enqueued, clock, ticks, spc, sid, wid, deliveries,
                   ppc, pid, ploaded, pcur, presp>>
    /\ UNCHANGED <<settingTimeout, labVars>>

\* lines 30-31: commit of the start
WorkerStartCommit ==
    /\ wpc = "loaded"
    /\ db' = [db EXCEPT ![wid] = Flush(@, wloaded, wcur)]
    /\ wpc' = "committed"
    /\ UNCHANGED <<enqueued, clock, ticks, spc, sid, wid, wloaded, wcur,
                   outcome, deliveries, ppc, pid, ploaded, pcur, presp>>
    /\ UNCHANGED <<settingTimeout, labVars>>

\* line 32: refresh reloads every attribute of the row
WorkerRefresh ==
    /\ wpc = "committed"
    /\ wloaded' = db[wid]
    /\ wcur' = db[wid]
    /\ wpc' = "exec"
    /\ UNCHANGED <<db, enqueued, clock, ticks, spc, sid, wid, outcome,
                   deliveries, ppc, pid, ploaded, pcur, presp>>
    /\ UNCHANGED <<settingTimeout, labVars>>

\* variant: the success write leaves finished_at out
WorkerSucceedUnfinished ==
    /\ wpc = "exec"
    /\ \E r \in OcrResults :
          LET new == [wcur EXCEPT !.status = "done",
                                  !.extracted_text = r,
                                  !.ocr_raw_json = r,
                                  !.field_suggestions_json = r]
          IN db' = [db EXCEPT ![wid] = Flush(@, wloaded, new)]
    /\ wpc' = "idle"
    /\ wloaded' = NewJob
    /\ wcur' = NewJob
    /\ outcome' = "returned"
    /\ UNCHANGED <<enqueued, clock, ticks, spc, sid, wid,
                   deliveries, ppc, pid, ploaded, pcur, presp>>
    /\ UNCHANGED <<settingTimeout, labVars>>

\* lines 34-78: OCR and mapping produced a result; success write
WorkerSucceed ==
    /\ wpc = "exec"
    /\ \E r \in OcrResults :
          LET new == [wcur EXCEPT !.status = "done",
                                  !.extracted_text = r,
                                  !.ocr_raw_json = r,
                                  !.field_suggestions_json = r,
                                  !.finished_at = clock]
          IN db' = [db EXCEPT ![wid] = Flush(@, wloaded, new)]
    /\ wpc' = "idle"
    /\ wloaded' = NewJob
    /\ wcur' = NewJob
    /\ outcome' = "returned"
    /\ UNCHANGED <<enqueued, clock, ticks, spc, sid, wid,
                   deliveries, ppc, pid, ploaded, pcur, presp>>
    /\ UNCHANGED <<settingTimeout, labVars>>

\* variant: the failure write leaves error_message out
WorkerFailNoMessage ==
    /\ wpc = "exec"
    /\ LET new == [wcur EXCEPT !.status = "failed",
                               !.finished_at = clock]
       IN db' = [db EXCEPT ![wid] = Flush(@, wloaded, new)]
    /\ wpc' = "idle"
    /\ wloaded' = NewJob
    /\ wcur' = NewJob
    /\ outcome' = "raised"
    /\ UNCHANGED <<enqueued, clock, ticks, spc, sid, wid,
                   deliveries, ppc, pid, ploaded, pcur, presp>>
    /\ UNCHANGED <<settingTimeout, labVars>>

\* variant: the exception propagates without any failure write
WorkerFailNoWrite ==
    /\ wpc = "exec"
    /\ wpc' = "idle"
    /\ wloaded' = NewJob
    /\ wcur' = NewJob
    /\ outcome' = "raised"
    /\ UNCHANGED <<db, enqueued, clock, ticks, spc, sid, wid,
                   deliveries, ppc, pid, ploaded, pcur, presp>>
    /\ UNCHANGED <<settingTimeout, labVars>>

\* lines 79-86: an exception in the execute phase; failure write, re-raise
WorkerFail ==
    /\ wpc = "exec"
    /\ \E e \in ExcMessages :
          LET new == [wcur EXCEPT !.status = "failed",
                                  !.error_message = e,
                                  !.finished_at = clock]
          IN db' = [db EXCEPT ![wid] = Flush(@, wloaded, new)]
    /\ wpc' = "idle"
    /\ wloaded' = NewJob
    /\ wcur' = NewJob
    /\ outcome' = "raised"
    /\ UNCHANGED <<enqueued, clock, ticks, spc, sid, wid,
                   deliveries, ppc, pid, ploaded, pcur, presp>>
    /\ UNCHANGED <<settingTimeout, labVars>>

\* the worker process dies mid-run: neither except nor finally runs
WorkerCrash ==
    /\ wpc \in {"start", "loaded", "committed", "exec"}
    /\ wpc' = "idle"
    /\ outcome' = "crashed"
    /\ wloaded' = NewJob
    /\ wcur' = NewJob
    /\ UNCHANGED <<db, enqueued, clock, ticks, spc, sid, wid,
                   deliveries, ppc, pid, ploaded, pcur, presp>>
    /\ UNCHANGED <<settingTimeout, labVars>>

\* ---------------------------------------------- fichas_importar_status_poll
Respond(row) ==
    IF row.status = "done" THEN "done"
    ELSE IF row.status = "failed" THEN "failed"
    ELSE "processing"

PollRequest ==
    /\ ppc = "idle"
    /\ \E id \in AllIds : pid' = id
    /\ ppc' = "start"
    /\ presp' = "none"
    /\ UNCHANGED <<db, enqueued, clock, ticks, spc, sid, wpc, wid, wloaded,
                   wcur, outcome, deliveries, ploaded, pcur>>
    /\ UNCHANGED <<settingTimeout, labVars>>

\* lines 539-547: load, 404 when missing, staleness test, assignments
PollRead ==
    /\ ppc = "start"
    /\ IF pid \notin DOMAIN db
       THEN /\ presp' = "404"
            /\ ppc' = "idle"
            /\ UNCHANGED <<ploaded, pcur>>
       ELSE IF IsStale(db[pid], clock)
       THEN /\ ploaded' = db[pid]
            /\ pcur' = [db[pid] EXCEPT !.status = "failed",
                                       !.error_message = TIMEOUT_MESSAGE,
                                       !.finished_at = clock]
            /\ ppc' = "write"
            /\ UNCHANGED presp
       ELSE /\ presp' = Respond(db[pid])
            /\ ppc' = "idle"
            /\ UNCHANGED <<ploaded, pcur>>
    /\ UNCHANGED <<db, enqueued, clock, ticks, spc, sid, wpc, wid, wloaded,
                   wcur, outcome, deliveries, pid>>
    /\ UNCHANGED <<settingTimeout, labVars>>

\* lines 548-560: commit of the timeout marking, then the response
PollCommit ==
    /\ ppc = "write"
    /\ db' = [db EXCEPT ![pid] = Flush(@, ploaded, pcur)]
    /\ presp' = Respond(pcur)
    /\ ppc' = "idle"
    /\ ploaded' = NewJob
    /\ pcur' = NewJob
    /\ UNCHANGED <<enqueued, clock, ticks, spc, sid, wpc, wid, wloaded, wcur,
                   outcome, deliveries, pid>>
    /\ UNCHANGED <<settingTimeout, labVars>>

Next ==
    \/ Tick
    \/ SubmitCommit
    \/ SubmitEnqueue
    \/ Deliver
    \/ WorkerLoad
    \/ WorkerStartCommit
    \/ WorkerRefresh
    \/ WorkerSucceed
    \/ WorkerFail
    \/ WorkerCrash
    \/ PollRequest
    \/ PollRead
    \/ PollCommit

Spec == Init /\ [][Next]_vars

\* the steps of a worker that keeps running (no crash)
WorkerRun ==
    \/ WorkerLoad
    \/ WorkerStartCommit
    \/ WorkerRefresh
    \/ WorkerSucceed
    \/ WorkerFail

NextLive ==
    \/ Tick
    \/ SubmitCommit
    \/ SubmitEnqueue
    \/ Deliver
    \/ WorkerLoad
    \/ WorkerStartCommit
    \/ WorkerRefresh
    \/ WorkerSucceed
    \/ WorkerFail
    \/ PollRequest
    \/ PollRead
    \/ PollCommit

\* a live worker always takes its next step and the OCR call returns or
\* raises; nothing obliges the queue to deliver, the clock to move or a
\* client to poll
LiveSpec == Init /\ [][NextLive]_vars /\ WF_vars(WorkerRun)

\* ------------------------------------------- submission under any setting
\* values of OCR_TIMEOUT_SECONDS an operator can configure
TimeoutSettings == (0 - MaxSetting)..MaxSetting

SubmitInit ==
    /\ JobInit
    /\ settingTimeout \in TimeoutSettings
    /\ LabIdle

SubmitNext ==
    \/ SubmitCommit
    \/ SubmitEnqueue

SubmitSpec == SubmitInit /\ [][SubmitNext]_vars

\* ------------------------------------------------------------- characters
\* A str is a sequence of characters; a character is a one-element name.
\* Precomposed letters are named by their NFKD decomposition.
Digits == {"0", "1", "2", "3", "4", "5", "6", "7", "8", "9"}
UpperSeq == <<"A", "B", "C", "D", "E", "F", "G", "H", "I", "J", "K", "L", "M",
              "N", "O", "P", "Q", "R", "S", "T", "U", "V", "W", "X", "Y", "Z">>
LowerSeq == <<"a", "b", "c", "d", "e", "f", "g", "h", "i", "j", "k", "l", "m",
              "n", "o", "p", "q", "r", "s", "t", "u", "v", "w", "x", "y", "z">>
UpperAZ == {UpperSeq[i] : i \in 1..26}
LowerAZ == {LowerSeq[i] : i \in 1..26}
\* what \s matches and str.strip() removes
Whitespace == {" ", "\t", "\n", "<nbsp>"}
Punctuation == {":", ".", ",", "-", "/", "*", "$", "\"", "\\", "_", "!", "'",
                "(", ")", ";", "?"}
\* combining marks (unicodedata.combining(ch) != 0)
Combining == {"<acute>", "<cedilla>", "<tilde>", "<circ>"}
\* characters with a decomposition: name |-> NFKD
Decomposition ==
    [c \in {"e<acute>", "E<circ>", "c<cedilla>", "C<cedilla>", "a<tilde>",
            "A<tilde>", "<ordf>", "<nbsp>"} |->
        CASE c = "e<acute>" -> <<"e", "<acute>">>
          [] c = "E<circ>" -> <<"E", "<circ>">>
          [] c = "c<cedilla>" -> <<"c", "<cedilla>">>
          [] c = "C<cedilla>" -> <<"C", "<cedilla>">>
          [] c = "a<tilde>" -> <<"a", "<tilde>">>
          [] c = "A<tilde>" -> <<"A", "<tilde>">>
          [] c = "<ordf>" -> <<"a">>
          [] c = "<nbsp>" -> <<" ">>]
\* letters outside a-z that NFKD leaves alone (sharp s, o with stroke)
OtherLetters == {"<szlig>", "<oslash>", "<Oslash>"}
Chars == Digits \cup UpperAZ \cup LowerAZ \cup Whitespace \cup Punctuation
         \cup Combining \cup DOMAIN Decomposition \cup OtherLetters

\* every str over the alphabet of at most n characters
StringsUpTo(alphabet, n) == UNION {[1..k -> alphabet] : k \in 0..n}

\* ----------------------------------------------------------- str methods
RECURSIVE Flatten(_)
\* "".join(parts)
Flatten(parts) ==
    IF parts = <<>> THEN <<>> ELSE Head(parts) \o Flatten(Tail(parts))

Reverse(s) == [i \in 1..Len(s) |-> s[Len(s) + 1 - i]]

\* the rest of s after its leading run of class characters
DropWhile(s, class) ==
    LET other == {i \in 1..Len(s) : s[i] \notin class}
    IN  IF other = {} THEN <<>>
        ELSE SubSeq(s, CHOOSE i \in other : \A j \in other : i <= j, Len(s))

\* the leading run of class characters of s
TakeWhile(s, class) ==
    LET other == {i \in 1..Len(s) : s[i] \notin class}
    IN  IF other = {} THEN s
        ELSE SubSeq(s, 1, (CHOOSE i \in other : \A j \in other : i <= j) - 1)

\* str.strip()
strip(s) == Reverse(DropWhile(Reverse(DropWhile(s, Whitespace)), Whitespace))

\* str.lower(), character by character
LowerChar(c) ==
    IF c \in UpperAZ THEN LowerSeq[CHOOSE i \in 1..26 : UpperSeq[i] = c]
    ELSE IF c = "<Oslash>" THEN "<oslash>"
    ELSE c

lower(s) == [i \in 1..Len(s) |-> LowerChar(s[i])]

RECURSIVE sub_runs(_, _, _)
\* re.sub(r"[class]+", repl, s): each maximal run of class characters
\* becomes repl
sub_runs(s, class, repl) ==
    IF s = <<>> THEN <<>>
    ELSE IF Head(s) \in class
         THEN repl \o sub_runs(DropWhile(s, class), class, repl)
         ELSE <<Head(s)>> \o sub_runs(Tail(s), class, repl)

\* ------------------------------------------------------- _normalize_label
NFKD(c) == IF c \in DOMAIN Decomposition THEN Decomposition[c] ELSE <<c>>

\* lines 18-20
strip_accents(value) ==
    SelectSeq(Flatten([i \in 1..Len(value) |-> NFKD(value[i])]),
              LAMBDA ch : ch \notin Combining)

\* variant: the trailing strip() of line 26 is left out
normalize_label_unstripped(value) ==
    LET v1 == strip(lower(strip_accents(value)))
        v2 == sub_runs(v1, Chars \ (LowerAZ \cup Digits \cup Whitespace),
                       <<" ">>)
    IN  sub_runs(v2, Whitespace, <<" ">>)

\* lines 23-26
normalize_label(value) ==
    LET v1 == strip(lower(strip_accents(value)))
        v2 == sub_runs(v1, Chars \ (LowerAZ \cup Digits \cup Whitespace),
                       <<" ">>)
    IN  strip(sub_runs(v2, Whitespace, <<" ">>))

\* strings the normalization is evaluated on
MaxNormLen == 3
NormAlphabet == {"a", "B", "1", " ", "\t", "-", "e<acute>", "C<cedilla>",
                 "<acute>", "<ordf>", "<nbsp>", "<szlig>"}

NormInit ==
    /\ JobInit
    /\ settingTimeout = OCR_TIMEOUT_SECONDS
    /\ farg \in StringsUpTo(NormAlphabet, MaxNormLen)
    /\ fres = <<>>
    /\ fpc = "ready"
    /\ MapIdle

NormalizeLabel ==
    /\ fpc = "ready"
    /\ fres' = normalize_label(farg)
    /\ fpc' = "done"
    /\ UNCHANGED <<jobVars, settingTimeout, farg, mapVars>>

NormNext == NormalizeLabel

NormSpec == NormInit /\ [][NormNext]_vars

\* ---------------------------------------------------------- _parse_decimal
\* Python None, comparable with every str
None == <<"<None>">>
\* Python None, comparable with every record
Nothing == [none |-> TRUE]

IsPrefix(p, s) == Len(p) <= Len(s) /\ SubSeq(s, 1, Len(p)) = p

RECURSIVE replace(_, _, _)
\* str.replace(old, new) with a non-empty old
replace(s, old, new) ==
    IF s = <<>> THEN <<>>
    ELSE IF IsPrefix(old, s)
         THEN new \o replace(SubSeq(s, Len(old) + 1, Len(s)), old, new)
         ELSE <<Head(s)>> \o replace(Tail(s), old, new)

\* lines 45-50
parse_decimal(value) ==
    LET c1 == replace(replace(value, <<"R", "$">>, <<>>), <<" ">>, <<>>)
        c2 == replace(c1, <<".">>, <<>>)
        c3 == replace(c2, <<",">>, <<".">>)
        cleaned == SelectSeq(c3, LAMBDA ch : ch \in Digits \cup {".", "-"})
    IN  IF cleaned = <<>> THEN None ELSE cleaned

\* amounts the parser is evaluated on
MaxDecLen == 3
DecAlphabet == {"1", "5", "0", ".", ",", "R", "$", " ", "-"}
\* "R$ 1.234,56" and "1234.56"
DecExamples == {<<"R", "$", " ", "1", ".", "2", "3", "4", ",", "5", "6">>,
                <<"1", "2", "3", "4", ".", "5", "6">>}

DecimalInit ==
    /\ JobInit
    /\ settingTimeout = OCR_TIMEOUT_SECONDS
    /\ farg \in StringsUpTo(DecAlphabet, MaxDecLen) \cup DecExamples
    /\ fres = <<>>
    /\ fpc = "ready"
    /\ MapIdle

ParseDecimal ==
    /\ fpc = "ready"
    /\ fres' = parse_decimal(farg)
    /\ fpc' = "done"
    /\ UNCHANGED <<jobVars, settingTimeout, farg, mapVars>>

DecimalNext == ParseDecimal

DecimalSpec == DecimalInit /\ [][DecimalNext]_vars

\* ----------------------------------------------------------- the parsers
\* Body of value, the value being computed once
With(value, Body(_)) == Body(value)

Min(S) == CHOOSE x \in S : \A y \in S : x <= y
Max(S) == CHOOSE x \in S : \A y \in S : x >= y

\* length of the run of digits that starts at position i
DigitRun(s, i) ==
    IF i > Len(s) THEN 0 ELSE Len(TakeWhile(SubSeq(s, i, Len(s)), Digits))

\* int(s) of a str of decimal digits
RECURSIVE to_int(_)
to_int(s) ==
    IF s = <<>> THEN 0
    ELSE 10 * to_int(SubSeq(s, 1, Len(s) - 1))
         + (CHOOSE n \in 0..9 : ToString(n) = s[Len(s)])

\* str(n) of a natural number
RECURSIVE int_to_str(_)
int_to_str(n) ==
    LET d == <<"0", "1", "2", "3", "4", "5", "6", "7", "8", "9">>[(n % 10) + 1]
    IN  IF n < 10 THEN <<d>> ELSE int_to_str(n \div 10) \o <<d>>

RECURSIVE zfill(_, _)
zfill(s, width) == IF Len(s) >= width THEN s ELSE zfill(<<"0">> \o s, width)

\* lines 53-57: re.search(r"(19|20)\d{2}", value)
parse_year(value) ==
    LET starts == {i \in 1..(Len(value) - 3) :
                     /\ SubSeq(value, i, i + 1) \in {<<"1", "9">>, <<"2", "0">>}
                     /\ value[i + 2] \in Digits
                     /\ value[i + 3] \in Digits}
    IN  IF starts = {} THEN None
        ELSE SubSeq(value, Min(starts), Min(starts) + 3)

\* lines 60-67: \d{1,7}[./-]\d{2,4}, else \d{3,}
parse_tc_numero(value) ==
    LET TcAt(i) == LET r == DigitRun(value, i)
                   IN  /\ r \in 1..7
                       /\ i + r <= Len(value)
                       /\ value[i + r] \in {".", "/", "-"}
                       /\ DigitRun(value, i + r + 1) >= 2
        tcs == {i \in 1..Len(value) : TcAt(i)}
        runs == {i \in 1..Len(value) : DigitRun(value, i) >= 3}
    IN  IF tcs # {}
        THEN LET i == Min(tcs)
                 r == DigitRun(value, i)
                 q == DigitRun(value, i + r + 1)
             IN  SubSeq(value, i, i + r + (IF q > 4 THEN 4 ELSE q))
        ELSE IF runs # {}
        THEN SubSeq(value, Min(runs),
                    Min(runs) + DigitRun(value, Min(runs)) - 1)
        ELSE None

\* the class [\d./*-] of the process-key pattern
KeyChars == Digits \cup {".", "/", "*", "-"}

\* lines 70-74: re.search(r"\d[\d./*-]+", value)
parse_process_key(value) ==
    LET starts == {i \in 1..(Len(value) - 1) :
                     value[i] \in Digits /\ value[i + 1] \in KeyChars}
    IN  IF starts = {} THEN None
        ELSE LET i == Min(starts)
             IN  <<value[i]>>
                 \o TakeWhile(SubSeq(value, i + 1, Len(value)), KeyChars)

RECURSIVE split(_, _)
\* str.split(sep) for a one-character separator
split(s, sep) ==
    LET head == TakeWhile(s, Chars \ {sep})
    IN  IF Len(head) = Len(s) THEN <<s>>
        ELSE <<head>> \o split(SubSeq(s, Len(head) + 2, Len(s)), sep)

\* the strptime formats of lines 30-37: separator and order of directives
DateFormats ==
    << [sep |-> "/", order |-> <<"d", "m", "Y">>],
       [sep |-> "-", order |-> <<"d", "m", "Y">>],
       [sep |-> "-", order |-> <<"Y", "m", "d">>],
       [sep |-> "/", order |-> <<"Y", "m", "d">>],
       [sep |-> ".", order |-> <<"d", "m", "Y">>],
       [sep |-> ".", order |-> <<"d", "m", "y">>] >>

\* the regular expression strptime builds for one directive
DirectiveMatches(dir, p) ==
    LET NonZero == Digits \ {"0"}
    IN  CASE dir = "d" ->
               \/ Len(p) = 1 /\ p[1] \in NonZero
               \/ /\ Len(p) = 2
                  /\ \/ p[1] = "3" /\ p[2] \in {"0", "1"}
                     \/ p[1] \in {"1", "2"} /\ p[2] \in Digits
                     \/ p[1] \in {"0", " "} /\ p[2] \in NonZero
          [] dir = "m" ->
               \/ Len(p) = 1 /\ p[1] \in NonZero
               \/ /\ Len(p) = 2
                  /\ \/ p[1] = "1" /\ p[2] \in {"0", "1", "2"}
                     \/ p[1] = "0" /\ p[2] \in NonZero
          [] dir = "Y" -> Len(p) = 4 /\ \A i \in 1..4 : p[i] \in Digits
          [] dir = "y" -> Len(p) = 2 /\ \A i \in 1..2 : p[i] \in Digits

DaysInMonth(year, month) ==
    IF month \in {4, 6, 9, 11} THEN 30
    ELSE IF month # 2 THEN 31
    ELSE IF year % 4 = 0 /\ (year % 100 # 0 \/ year % 400 = 0) THEN 29
    ELSE 28

\* datetime.strptime(s, fmt).date().isoformat(), None for ValueError
strptime_iso(s, fmt) ==
    LET parts == split(s, fmt.sep)
        Part(dir) == parts[CHOOSE i \in 1..3 : fmt.order[i] = dir]
        Num(dir) == to_int(SelectSeq(Part(dir), LAMBDA ch : ch \in Digits))
        year == IF "Y" \in {fmt.order[i] : i \in 1..3} THEN Num("Y")
                ELSE IF Num("y") <= 68 THEN 2000 + Num("y")
                ELSE 1900 + Num("y")
    IN  IF /\ Len(parts) = 3
           /\ \A i \in 1..3 : DirectiveMatches(fmt.order[i], parts[i])
           /\ year >= 1
           /\ Num("d") <= DaysInMonth(year, Num("m"))
        THEN zfill(int_to_str(year), 4) \o <<"-">>
             \o zfill(int_to_str(Num("m")), 2) \o <<"-">>
             \o zfill(int_to_str(Num("d")), 2)
        ELSE None

\* lines 29-42: the first format that parses
parse_date(value) ==
    LET ok == {k \in 1..Len(DateFormats) :
                 strptime_iso(strip(value), DateFormats[k]) # None}
    IN  IF ok = {} THEN None
        ELSE strptime_iso(strip(value), DateFormats[Min(ok)])

\* lines 388-394
parse_boolean(value) ==
    LET lowered == lower(strip(value))
    IN  IF lowered \in {<<"s", "i", "m">>, <<"t", "r", "u", "e">>, <<"1">>, <<"y", "e", "s">>} THEN <<"t", "r", "u", "e">>
        ELSE IF lowered \in {<<"n", "a", "o">>, <<"f", "a", "l", "s", "e">>, <<"0">>, <<"n", "o">>} THEN <<"f", "a", "l", "s", "e">>
        ELSE None

\* lines 371-395; template_fields maps a schema field id to its type
parse_value(field, value, template_fields) ==
    IF field = "tc_numero" THEN parse_tc_numero(value)
    ELSE IF field = "process_key" THEN parse_process_key(value)
    ELSE IF field = "ano" THEN parse_year(value)
    ELSE IF field = "data" THEN parse_date(value)
    ELSE IF field = "valor" THEN parse_decimal(value)
    ELSE IF /\ field \in DOMAIN template_fields
            /\ template_fields[field] = "date"
         THEN parse_date(value)
    ELSE IF /\ field \in DOMAIN template_fields
            /\ template_fields[field] \in {"number", "currency"}
         THEN parse_decimal(value)
    ELSE IF /\ field \in DOMAIN template_fields
            /\ template_fields[field] = "boolean"
         THEN parse_boolean(value)
    ELSE IF strip(value) = <<>> THEN None ELSE strip(value)

\* --------------------------------------------------------- add_suggestion
\* Confidences are fixed-point numbers in units of 1/10000; a division
\* rounds down.
CONF_ONE == 10000
CONF_FLOOR == 500

\* lines 223-227: field id -> declared type, a later field of the same id
\* replacing an earlier one
TemplateFields(tpl) ==
    [f \in {tpl[i].field_id : i \in 1..Len(tpl)} |->
        tpl[Max({i \in 1..Len(tpl) : tpl[i].field_id = f})].type]

\* line 242: re.match(r"(?i)^valor\\b", value.strip()); the pattern spells
\* a backslash followed by the letter b after "valor"
StartsWithValorPattern(value) ==
    /\ Len(strip(value)) >= 7
    /\ lower(SubSeq(strip(value), 1, 7)) = <<"v", "a", "l", "o", "r", "\\", "b">>

Put(sugg, slot, entry) ==
    [k \in DOMAIN sugg \cup {slot} |-> IF k = slot THEN entry ELSE sugg[k]]

\* variant: a tie on confidence replaces the stored suggestion
add_suggestion_on_tie(sugg, template_fields, group, field, value, confidence, source) ==
    IF field = "reparticao" /\ StartsWithValorPattern(value) THEN sugg
    ELSE With(parse_value(field, value, template_fields),
              LAMBDA parsed_value :
                  IF parsed_value = None THEN sugg
                  ELSE IF \/ <<group, field>> \notin DOMAIN sugg
                          \/ confidence >= sugg[<<group, field>>].confidence
                  THEN Put(sugg, <<group, field>>,
                           [value |-> parsed_value, confidence |-> confidence,
                            source |-> source])
                  ELSE sugg)

\* lines 241-253
add_suggestion(sugg, template_fields, group, field, value, confidence, source) ==
    IF field = "reparticao" /\ StartsWithValorPattern(value) THEN sugg
    ELSE With(parse_value(field, value, template_fields),
              LAMBDA parsed_value :
                  IF parsed_value = None THEN sugg
                  ELSE IF \/ <<group, field>> \notin DOMAIN sugg
                          \/ confidence > sugg[<<group, field>>].confidence
                  THEN Put(sugg, <<group, field>>,
                           [value |-> parsed_value, confidence |-> confidence,
                            source |-> source])
                  ELSE sugg)

\* a schema with one enum field and its two options
EnumTemplate ==
    << [field_id |-> "estado", spelling |-> <<"e", "s", "t", "a", "d", "o">>,
        label |-> <<"E", "s", "t", "a", "d", "o">>, type |-> "enum",
        options |-> {<<"a", "b", "e", "r", "t", "o">>, <<"f", "e", "c", "h", "a", "d", "o">>}] >>

\* a schema whose first field id is the name of a base field: "ano" is a
\* text field labelled "Ano letivo", "quando" a date field
TypedTemplate ==
    << [field_id |-> "ano", spelling |-> <<"a", "n", "o">>,
        label |-> <<"A", "n", "o", " ", "l", "e", "t", "i", "v", "o">>, type |-> "text", options |-> {}],
       [field_id |-> "quando", spelling |-> <<"q", "u", "a", "n", "d", "o">>,
        label |-> <<"Q", "u", "a", "n", "d", "o">>, type |-> "date", options |-> {}] >>

\* the schemas and candidates the aggregator is driven with
AggTemplates == {<<>>, EnumTemplate, TypedTemplate}
AggSlots(tpl) ==
    {<<"base", "process_key">>}
    \cup {<<"extras", tpl[i].field_id>> : i \in 1..Len(tpl)}
AggValues == {<<"P", "R", "O", "C", "-", "1", "2", "3">>, <<"a", "b", "e", "r", "t", "o">>,
              <<" ", "f", "e", "c", "h", "a", "d", "o", " ">>}
\* values for reparticao: two that begin with the word "valor", one that
\* begins with the characters of the pattern of line 242, and a name
ReparticaoValues ==
    {<<"v", "a", "l", "o", "r", " ", "C", "$", "9", "8", ".", "4", "0", "0", ",", "0", "0">>, <<" ", "V", "a", "l", "o", "r", ":", " ", "1", "0">>,
     <<"v", "a", "l", "o", "r", "\\", "b", " ", "5">>, <<"F", "i", "n", "a", "n", "c", "e", "i", "r", "o">>}
\* values for the fields of TypedTemplate
TypedValues ==
    {<<" ", "T", "u", "r", "m", "a", " ", "B", " ">>, <<"T", "u", "r", "m", "a", " ", "d", "e", " ", "1", "9", "9", "9">>, <<"2", "3", ".", "1", "0", ".", "8", "0">>}
\* the (slot, value) pairs of the calls on a schema
AggCalls(tpl) ==
    IF tpl = TypedTemplate
    THEN {<<"extras", "ano">>, <<"extras", "quando">>} \X TypedValues
    ELSE (AggSlots(tpl) \X AggValues)
         \cup (IF tpl = <<>> THEN {<<"base", "reparticao">>} \X ReparticaoValues
               ELSE {})
AggConfidences == {5000, 9000}
AggSources == {"label_block", "key_value"}

AggInit ==
    /\ JobInit
    /\ settingTimeout = OCR_TIMEOUT_SECONDS
    /\ farg = <<>>
    /\ fres = <<>>
    /\ fpc = "ready"
    /\ suggestions = <<>>
    /\ template \in AggTemplates
    /\ text = <<>>
    /\ ocr_items = <<>>
    /\ mpc = "idle"
    /\ returned = <<>>

\* one call of add_suggestion; farg is the call, fres what its value
\* parsed to
AddSuggestion ==
    \E call \in AggCalls(template), confidence \in AggConfidences,
       source \in AggSources :
        /\ farg' = [group |-> call[1][1], field |-> call[1][2],
                    value |-> call[2], confidence |-> confidence,
                    source |-> source]
        /\ fres' = parse_value(call[1][2], call[2], TemplateFields(template))
        /\ fpc' = "done"
        /\ suggestions' = add_suggestion(suggestions,
                              TemplateFields(template), call[1][1],
                              call[1][2], call[2], confidence, source)
        /\ UNCHANGED <<jobVars, settingTimeout, template, text, ocr_items,
                       mpc, returned>>

AggNext == AddSuggestion

AggSpec == AggInit /\ [][AggNext]_vars

\* ------------------------------------------------- rapidfuzz (version 3)
\* The scorer and extractOne run without a processor: strings are compared
\* as they are.  A score is the exact fraction 100 * n / d.
\* the characters in code point order
CodeOrder ==
    <<"\t", "\n", " ", "!", "\"", "$", "'", "(", ")", "*", ",", "-", ".", "/">>
    \o <<"0", "1", "2", "3", "4", "5", "6", "7", "8", "9", ":", ";", "?">>
    \o UpperSeq \o <<"\\", "_">> \o LowerSeq
    \o <<"<nbsp>", "<ordf>", "A<tilde>", "C<cedilla>", "E<circ>", "<Oslash>",
         "<szlig>", "a<tilde>", "c<cedilla>", "e<acute>", "<oslash>",
         "<acute>", "<circ>", "<tilde>", "<cedilla>">>

Ord(c) == CHOOSE i \in 1..Len(CodeOrder) : CodeOrder[i] = c

RECURSIVE StrLess(_, _)
\* a < b for two str
StrLess(a, b) ==
    IF b = <<>> THEN FALSE
    ELSE IF a = <<>> THEN TRUE
    ELSE IF Head(a) = Head(b) THEN StrLess(Tail(a), Tail(b))
    ELSE Ord(Head(a)) < Ord(Head(b))

RECURSIVE SortedSeq(_)
\* sorted(S) of a set of str
SortedSeq(S) ==
    IF S = {} THEN <<>>
    ELSE LET m == CHOOSE x \in S : \A y \in S \ {x} : StrLess(x, y)
         IN  <<m>> \o SortedSeq(S \ {m})

RECURSIVE split_ws(_)
\* str.split(): the maximal runs of non-whitespace characters
split_ws(s) ==
    LET t == DropWhile(s, Whitespace)
        w == TakeWhile(t, Chars \ Whitespace)
    IN  IF t = <<>> THEN <<>>
        ELSE <<w>> \o split_ws(SubSeq(t, Len(w) + 1, Len(t)))

RECURSIVE join(_, _)
\* sep.join(parts)
join(parts, sep) ==
    IF parts = <<>> THEN <<>>
    ELSE IF Len(parts) = 1 THEN parts[1]
    ELSE parts[1] \o sep \o join(Tail(parts), sep)

\* one row of the longest-common-subsequence table: row[j + 1] is the
\* length for the first j characters of b; a character of a is either left
\* out or matched with an equal character of b
lcs_next_row(prev, ch, b) ==
    <<>> \o [j1 \in 1..(Len(b) + 1) |->
               Max({prev[j1]} \cup {prev[k] + 1 : k \in {k \in 1..(j1 - 1) :
                                                         b[k] = ch}})]

RECURSIVE lcs_rows(_, _, _)
lcs_rows(a, b, row) ==
    IF a = <<>> THEN row
    ELSE LET next == lcs_next_row(row, Head(a), b)
         IN  IF Len(next) > 0 THEN lcs_rows(Tail(a), b, next) ELSE next

lcs_length(a, b) == lcs_rows(a, b, [j \in 1..(Len(b) + 1) |-> 0])[Len(b) + 1]

SCORE_100 == [n |-> 1, d |-> 1]
SCORE_0 == [n |-> 0, d |-> 1]
\* score >= pct, score < pct and a > b on exact fractions
ScoreAtLeast(score, pct) == 100 * score.n >= pct * score.d
ScoreGreater(a, b) == a.n * b.d > b.n * a.d

\* fuzz.token_set_ratio(s1, s2)
token_set_ratio(s1, s2) ==
    LET Norm(distance, lensum) == [n |-> lensum - distance, d |-> lensum]
        Better(x, y) == IF ScoreGreater(x, y) THEN x ELSE y
        Tokens(s) == With(split_ws(s), LAMBDA w : {w[i] : i \in 1..Len(w)})
        Joined(S) == join(SortedSeq(S), <<" ">>)
        \* sect, ab and ba are lengths, lcs that of the common subsequence
        Ratio(sect, sep, ab, ba, lcs) ==
            IF sect = 0 THEN Norm(ab + ba - 2 * lcs, ab + ba)
            ELSE Better(Norm(ab + ba - 2 * lcs, 2 * sect + 2 * sep + ab + ba),
                        Better(Norm(sep + ab, 2 * sect + sep + ab),
                               Norm(sep + ba, 2 * sect + sep + ba)))
    IN  With(Tokens(s1), LAMBDA ta : With(Tokens(s2), LAMBDA tb :
            IF ta = {} \/ tb = {} THEN SCORE_0
            ELSE IF ta \cap tb # {} /\ (ta \ tb = {} \/ tb \ ta = {})
            THEN SCORE_100
            ELSE With(Joined(ta \cap tb), LAMBDA sect :
                 With(Joined(ta \ tb), LAMBDA ab :
                 With(Joined(tb \ ta), LAMBDA ba :
                     Ratio(Len(sect), IF Len(sect) > 0 THEN 1 ELSE 0,
                           Len(ab), Len(ba), lcs_length(ab, ba)))))))

\* process.extractOne(query, choices, scorer=fuzz.token_set_ratio): the
\* first choice of the highest score, as [choice, score, index]; Nothing when
\* there is no choice
extractOne(query, choices) ==
    IF choices = <<>> THEN Nothing
    ELSE With(<<>> \o [i \in 1..Len(choices) |->
                          token_set_ratio(query, choices[i])],
              LAMBDA scores :
                  With(CHOOSE i \in 1..Len(choices) :
                          /\ \A j \in 1..Len(choices) :
                                ~ScoreGreater(scores[j], scores[i])
                          /\ \A j \in 1..(i - 1) :
                                ScoreGreater(scores[i], scores[j]),
                       LAMBDA best : [choice |-> choices[best],
                                      score |-> scores[best],
                                      index |-> best]))

\* -------------------------------------------------------------- confidence
DEFAULT_CONFIDENCE == 4000
BADGE_STEP == 1000

\* lines 183-186
confidence_badge(conf, matched_score) ==
    LET boost == IF ScoreAtLeast(matched_score, 85) THEN BADGE_STEP ELSE 0
        penalty == IF ~ScoreAtLeast(matched_score, 75) THEN BADGE_STEP ELSE 0
        c == conf + boost - penalty
    IN  IF c > CONF_ONE THEN CONF_ONE
        ELSE IF c < CONF_FLOOR THEN CONF_FLOOR ELSE c

\* lines 169-180; an item is [text, confidence], confidence 0 standing for
\* 0.0 and for a missing one alike
line_confidence(line, items) ==
    IF items = <<>> THEN DEFAULT_CONFIDENCE
    ELSE With(extractOne(line,
                         SelectSeq([i \in 1..Len(items) |-> items[i].text],
                                   LAMBDA t : t # <<>>)),
              LAMBDA best :
                  IF best = Nothing THEN DEFAULT_CONFIDENCE
                  ELSE With(IF items[best.index].confidence = 0
                            THEN DEFAULT_CONFIDENCE
                            ELSE items[best.index].confidence,
                            LAMBDA conf :
                                IF ~ScoreAtLeast(best.score, 70)
                                THEN (conf * 7) \div 10
                                ELSE conf))

RECURSIVE sum(_)
sum(xs) == IF xs = <<>> THEN 0 ELSE Head(xs) + sum(Tail(xs))

\* lines 118-124
block_confidence(lines, items) ==
    With(SelectSeq(lines, LAMBDA l : strip(l) # <<>>), LAMBDA nonblank :
        With([i \in 1..Len(nonblank) |-> line_confidence(nonblank[i], items)],
             LAMBDA scores :
                 IF scores = <<>> THEN DEFAULT_CONFIDENCE
                 ELSE sum(scores) \div Len(scores)))

\* ---------------------------------------------------------- the label index
\* lines 197-216: field and label, in the order of the dict
base_labels ==
    <<
       [field |-> "process_key",
        label |-> <<"p", "r", "o", "c", "e", "s", "s", "o">>],
       [field |-> "process_key",
        label |-> <<"p", "r", "o", "c", "e", "s", "s", "o", " ", "c", "h", "a", "v", "e">>],
       [field |-> "process_key",
        label |-> <<"c", "h", "a", "v", "e", " ", "d", "o", " ", "p", "r", "o", "c", "e", "s", "s", "o">>],
       [field |-> "process_key",
        label |-> <<"n", "u", "m", "e", "r", "o", " ", "d", "o", " ", "p", "r", "o", "c", "e", "s", "s", "o">>],
       [field |-> "process_key",
        label |-> <<"n", "u", "m", "e", "r", "o", " ", "p", "r", "o", "c", "e", "s", "s", "o">>],
       [field |-> "process_key",
        label |-> <<"p", "r", "o", "c">>],
       [field |-> "tc_numero",
        label |-> <<"t", "c", " ", "n", "u", "m", "e", "r", "o">>],
       [field |-> "tc_numero",
        label |-> <<"t", "c">>],
       [field |-> "tc_numero",
        label |-> <<"t", "c", "m">>],
       [field |-> "tc_numero",
        label |-> <<"n", "u", "m", "e", "r", "o", " ", "t", "c">>],
       [field |-> "ano",
        label |-> <<"a", "n", "o">>],
       [field |-> "ano",
        label |-> <<"e", "x", "e", "r", "c", "i", "c", "i", "o">>],
       [field |-> "data",
        label |-> <<"d", "a", "t", "a">>],
       [field |-> "data",
        label |-> <<"d", "a", "t", "a", " ", "d", "o", " ", "p", "r", "o", "c", "e", "s", "s", "o">>],
       [field |-> "data",
        label |-> <<"d", "a", "t", "a", " ", "d", "e", " ", "a", "b", "e", "r", "t", "u", "r", "a">>],
       [field |-> "interessado",
        label |-> <<"i", "n", "t", "e", "r", "e", "s", "s", "a", "d", "o">>],
       [field |-> "interessado",
        label |-> <<"r", "e", "q", "u", "e", "r", "e", "n", "t", "e">>],
       [field |-> "interessado",
        label |-> <<"i", "n", "t", "e", "r", "e", "s", "s", "a", "d", "o", "s">>],
       [field |-> "assunto",
        label |-> <<"a", "s", "s", "u", "n", "t", "o">>],
       [field |-> "assunto",
        label |-> <<"o", "b", "j", "e", "t", "o">>],
       [field |-> "procedencia",
        label |-> <<"p", "r", "o", "c", "e", "d", "e", "n", "c", "i", "a">>],
       [field |-> "procedencia",
        label |-> <<"p", "r", "o", "c", "e", "d", "e", "n", "c", "i", "a">>],
       [field |-> "procedencia",
        label |-> <<"o", "r", "i", "g", "e", "m">>],
       [field |-> "reparticao",
        label |-> <<"r", "e", "p", "a", "r", "t", "i", "c", "a", "o">>],
       [field |-> "reparticao",
        label |-> <<"r", "e", "p", "a", "r", "t", "i", "c", "a", "o">>],
       [field |-> "reparticao",
        label |-> <<"s", "e", "t", "o", "r">>],
       [field |-> "reparticao",
        label |-> <<"u", "n", "i", "d", "a", "d", "e">>],
       [field |-> "valor",
        label |-> <<"v", "a", "l", "o", "r">>],
       [field |-> "valor",
        label |-> <<"v", "a", "l", "o", "r", " ", "t", "o", "t", "a", "l">>],
       [field |-> "valor",
        label |-> <<"m", "o", "n", "t", "a", "n", "t", "e">>],
       [field |-> "valor",
        label |-> <<"q", "u", "a", "n", "t", "i", "a">>],
       [field |-> "observacoes",
        label |-> <<"o", "b", "s", "e", "r", "v", "a", "c", "o", "e", "s">>],
       [field |-> "observacoes",
        label |-> <<"o", "b", "s", "e", "r", "v", "a", "c", "a", "o">>],
       [field |-> "observacoes",
        label |-> <<"a", "n", "o", "t", "a", "c", "o", "e", "s">>],
       [field |-> "observacoes",
        label |-> <<"o", "b", "s">>],
       [field |-> "indexador",
        label |-> <<"i", "n", "d", "e", "x", "a", "d", "o", "r">>] >>
\* lines 219-221: the registrations of the static vocabulary, in order
BaseRegistrations ==
    <<>> \o [i \in 1..Len(base_labels) |->
                [label |-> normalize_label(base_labels[i].label),
                 group |-> "base", field |-> base_labels[i].field]]

\* lines 224-229: the label, then the id, of every schema field
TemplateRegistrations(tpl) ==
    <<>> \o [n \in 1..(2 * Len(tpl)) |->
                LET f == tpl[(n + 1) \div 2]
                IN  [label |-> normalize_label(IF n % 2 = 1 THEN f.label
                                               ELSE f.spelling),
                     group |-> "extras", field |-> f.field_id]]

\* the dict after label_map[label] = (group, field) for each registration
\* in turn: a label keeps the place of its first registration and the
\* value of its last
DictOf(regs) ==
    LET firsts == SelectSeq(<<>> \o [i \in 1..Len(regs) |-> i],
                            LAMBDA i : \A j \in 1..(i - 1) :
                                          regs[j].label # regs[i].label)
    IN  <<>> \o [n \in 1..Len(firsts) |->
                    regs[Max({j \in 1..Len(regs) :
                                regs[j].label = regs[firsts[n]].label})]]

\* variant: the static vocabulary is registered after the schema's labels
LabelMapBaseLast(tpl) ==
    DictOf(TemplateRegistrations(tpl) \o BaseRegistrations)

\* lines 218-229
LabelMap(tpl) == DictOf(BaseRegistrations \o TemplateRegistrations(tpl))

Lookup(map, label) == map[CHOOSE i \in 1..Len(map) : map[i].label = label]

Keys(map) == [i \in 1..Len(map) |-> map[i].label]

\* lines 233-239: the aliases as token lists, longest first (stable sort)
AliasTokens(map) ==
    LET all == SelectSeq([i \in 1..Len(map) |->
                             [alias |-> split_ws(map[i].label),
                              group |-> map[i].group,
                              field |-> map[i].field]],
                         LAMBDA e : e.alias # <<>>)
        longest == Max({0} \cup {Len(all[i].alias) : i \in 1..Len(all)})
    IN  Flatten([k \in 1..longest |->
                    SelectSeq(all, LAMBDA e : Len(e.alias) = longest + 1 - k)])

\* lines 91-94
tokenize_line(line) ==
    LET tokens == split_ws(strip(line))
    IN  [tokens |-> tokens,
         normalized |-> [i \in 1..Len(tokens) |-> normalize_label(tokens[i])]]

\* lines 97-115: [group, field, value, score] or Nothing
match_inline_label(line, alias_tokens, map) ==
    With(tokenize_line(line), LAMBDA tk :
        With({i \in 1..Len(alias_tokens) :
                 /\ Len(tk.normalized) >= Len(alias_tokens[i].alias)
                 /\ SubSeq(tk.normalized, 1, Len(alias_tokens[i].alias))
                      = alias_tokens[i].alias},
             LAMBDA hits :
                 IF tk.normalized = <<>> THEN Nothing
                 ELSE IF hits # {}
                 THEN With(alias_tokens[Min(hits)], LAMBDA a :
                          [group |-> a.group, field |-> a.field,
                           value |-> strip(join(SubSeq(tk.tokens,
                                                       Len(a.alias) + 1,
                                                       Len(tk.tokens)),
                                                <<" ">>)),
                           score |-> SCORE_100])
                 ELSE IF Len(tk.normalized) <= 2
                 THEN With(extractOne(join(tk.normalized, <<" ">>),
                                      Keys(map)),
                           LAMBDA best :
                               IF best # Nothing
                                  /\ ScoreAtLeast(best.score, 85)
                               THEN [group |-> Lookup(map, best.choice).group,
                                     field |-> Lookup(map, best.choice).field,
                                     value |-> <<>>, score |-> best.score]
                               ELSE Nothing)
                 ELSE Nothing))

\* variant: the buffered lines are joined without a separator
FlushedUnspaced(results, current, buffer, items) ==
    IF current # Nothing /\ buffer # <<>>
    THEN Append(results,
                [group |-> current.group, field |-> current.field,
                 value |-> strip(join(buffer, <<>>)),
                 confidence |-> confidence_badge(
                     block_confidence(buffer, items), current.score)])
    ELSE results

\* lines 137-146: the candidates after flush()
Flushed(results, current, buffer, items) ==
    IF current # Nothing /\ buffer # <<>>
    THEN Append(results,
                [group |-> current.group, field |-> current.field,
                 value |-> strip(join(buffer, <<" ">>)),
                 confidence |-> confidence_badge(
                     block_confidence(buffer, items), current.score)])
    ELSE results

RECURSIVE collect_from(_, _, _, _, _, _, _)
\* lines 148-166: the loop over the lines, with results, current, buffer
collect_from(lines, alias_tokens, map, items, results, current, buffer) ==
    IF lines = <<>> THEN Flushed(results, current, buffer, items)
    ELSE With(Head(lines), LAMBDA line :
         With(match_inline_label(line, alias_tokens, map), LAMBDA match :
         With(Flushed(results, current, buffer, items), LAMBDA flushed :
             IF strip(line) = <<>>
             THEN collect_from(Tail(lines), alias_tokens, map, items,
                               flushed, Nothing, <<>>)
             ELSE IF match # Nothing
             THEN IF match.value # <<>>
                  THEN collect_from(Tail(lines), alias_tokens, map, items,
                           Append(flushed,
                               [group |-> match.group, field |-> match.field,
                                value |-> match.value,
                                confidence |-> confidence_badge(
                                    line_confidence(line, items),
                                    match.score)]),
                           Nothing, <<>>)
                  ELSE collect_from(Tail(lines), alias_tokens, map, items,
                           flushed,
                           [group |-> match.group, field |-> match.field,
                            score |-> match.score],
                           <<>>)
             ELSE IF current # Nothing
             THEN collect_from(Tail(lines), alias_tokens, map, items,
                               results, current, Append(buffer, strip(line)))
             ELSE collect_from(Tail(lines), alias_tokens, map, items,
                               results, current, buffer))))

\* lines 127-166
collect_label_blocks(lines, alias_tokens, map, items) ==
    collect_from(lines, alias_tokens, map, items, <<>>, Nothing, <<>>)

\* line 83: re.match(r"^\s*([^:]{2,60})\s*:\s*(.+)$", raw) on a stripped
\* line; [key, value, raw] or Nothing
KEY_MIN == 2
KEY_MAX == 60
key_value_of(line) ==
    With(strip(line), LAMBDA raw :
    With(TakeWhile(raw, Chars \ {":"}), LAMBDA before :
    With(IF Len(before) > KEY_MAX THEN KEY_MAX ELSE Len(before), LAMBDA k :
    With(SubSeq(raw, Len(before) + 2, Len(raw)), LAMBDA after :
        IF /\ Len(before) < Len(raw)
           /\ k >= KEY_MIN
           /\ \A i \in (k + 1)..Len(before) : before[i] \in Whitespace
           /\ after # <<>>
        THEN [key |-> strip(SubSeq(before, 1, k)), value |-> strip(after),
              raw |-> raw]
        ELSE Nothing))))

\* lines 77-88
extract_key_values(lines) ==
    SelectSeq([i \in 1..Len(lines) |-> key_value_of(lines[i])],
              LAMBDA p : p # Nothing)

\* ------------------------------------------------- patterns of the passes
\* \w of a str pattern
WordChars == Digits \cup UpperAZ \cup LowerAZ \cup {"_", "<ordf>"}
             \cup (DOMAIN Decomposition \ {"<nbsp>", "<ordf>"}) \cup OtherLetters

\* \b between positions i - 1 and i of s
WordBoundary(s, i) ==
    (i > 1 /\ s[i - 1] \in WordChars) # (i <= Len(s) /\ s[i] \in WordChars)

\* s[i..] starts with the letters of word, in any case
StartsWithAt(s, i, word) ==
    /\ i + Len(word) - 1 <= Len(s)
    /\ lower(SubSeq(s, i, i + Len(word) - 1)) = word

\* [0-9]{a}[./-][0-9]{b}[./-][0-9]{c} fits s at position i
DateFits(s, i, a, b, c) ==
    /\ i + a + b + c + 1 <= Len(s)
    /\ \A k \in 0..(a - 1) : s[i + k] \in Digits
    /\ s[i + a] \in {".", "/", "-"}
    /\ \A k \in 1..b : s[i + a + k] \in Digits
    /\ s[i + a + b + 1] \in {".", "/", "-"}
    /\ \A k \in 1..c : s[i + a + b + 1 + k] \in Digits

\* ends of the matches of [0-9]{1,2}[./-][0-9]{1,2}[./-][0-9]{2,4} at i
DateEnds(s, i) ==
    {i + t[1] + t[2] + t[3] + 1 :
        t \in {u \in (1..2) \X (1..2) \X (2..4) :
                  DateFits(s, i, u[1], u[2], u[3])}}

\* line 297
looks_like_date(value) ==
    \E i \in 1..Len(value) :
        /\ WordBoundary(value, i)
        /\ \E e \in DateEnds(value, i) : WordBoundary(value, e + 1)

\* line 300
looks_like_year(value) ==
    \E i \in 1..(Len(value) - 3) :
        /\ WordBoundary(value, i)
        /\ SubSeq(value, i, i + 1) \in {<<"1", "9">>, <<"2", "0">>}
        /\ value[i + 2] \in Digits
        /\ value[i + 3] \in Digits
        /\ WordBoundary(value, i + 4)

\* line 303: [0-9]{1,3}([.,][0-9]{3})+[,\\.][0-9]{2}, the last class being
\* comma, backslash and full stop
looks_like_value(value) ==
    \E i \in 1..Len(value), a \in 1..3, g \in 1..(Len(value) \div 4) :
        LET p == i + a + 4 * g
        IN  /\ p + 2 <= Len(value)
            /\ WordBoundary(value, i)
            /\ \A k \in i..(i + a - 1) : value[k] \in Digits
            /\ \A n \in 0..(g - 1) :
                  /\ value[i + a + 4 * n] \in {".", ","}
                  /\ \A k \in 1..3 : value[i + a + 4 * n + k] \in Digits
            /\ value[p] \in {",", "\\", "."}
            /\ value[p + 1] \in Digits
            /\ value[p + 2] \in Digits
            /\ WordBoundary(value, p + 3)

\* line 306: re.search(r"\bPROC\\b", value, IGNORECASE); the pattern
\* spells a backslash followed by the letter b after PROC
looks_like_proc(value) ==
    \E i \in 1..Len(value) :
        WordBoundary(value, i)
        /\ StartsWithAt(value, i, <<"p", "r", "o", "c", "\\", "b">>)

\* line 309
is_short_connector(value) ==
    normalize_label(value) \in
        {<<"d", "o">>, <<"d", "a">>, <<"d", "e">>, <<"d", "o", "s">>,
         <<"d", "a", "s">>, <<"n", "o">>, <<"n", "a">>, <<"n", "o", "s">>,
         <<"n", "a", "s">>, <<"e">>}

\* re.search(r"[A-Za-z]", line)
HasAsciiLetter(line) ==
    \E i \in 1..Len(line) : line[i] \in UpperAZ \cup LowerAZ

LooksLikeNoise(line) ==
    \/ looks_like_year(line)
    \/ looks_like_date(line)
    \/ looks_like_value(line)
    \/ looks_like_proc(line)

\* ------------------------------------------------------------ the passes
\* line 194
NonBlank(lines) == SelectSeq(lines, LAMBDA l : strip(l) # <<>>)

RECURSIVE AddAll(_, _, _, _)
\* add_suggestion for each candidate in turn
AddAll(sugg, template_fields, cands, source) ==
    IF cands = <<>> THEN sugg
    ELSE AddAll(add_suggestion(sugg, template_fields, Head(cands).group,
                               Head(cands).field, Head(cands).value,
                               Head(cands).confidence, source),
                template_fields, Tail(cands), source)

\* lines 255-257
AfterBlocks(sugg, lines, items, tpl) ==
    AddAll(sugg, TemplateFields(tpl),
           collect_label_blocks(lines, AliasTokens(LabelMap(tpl)),
                                LabelMap(tpl), items),
           "label_block")

\* lines 260-270: the candidate of one pair, Nothing when the label is
\* not accepted
KEY_VALUE_THRESHOLD == 70
PairCandidate(pair, map, items) ==
    With(extractOne(normalize_label(pair.key), Keys(map)), LAMBDA best :
        IF best = Nothing THEN Nothing
        ELSE IF ~ScoreAtLeast(best.score, KEY_VALUE_THRESHOLD) THEN Nothing
        ELSE [group |-> Lookup(map, best.choice).group,
              field |-> Lookup(map, best.choice).field,
              value |-> pair.value,
              confidence |-> confidence_badge(
                  line_confidence(pair.raw, items), best.score)])

\* lines 259-271
AfterPairs(sugg, lines, items, tpl) ==
    With(extract_key_values(lines), LAMBDA pairs :
    With(LabelMap(tpl), LAMBDA map :
        AddAll(sugg, TemplateFields(tpl),
               SelectSeq(<<>> \o [i \in 1..Len(pairs) |->
                                     PairCandidate(pairs[i], map, items)],
                         LAMBDA c : c # Nothing),
               "key_value")))

\* lines 273-288: the inline match of every line
LabelMatches(lines, tpl) ==
    <<>> \o [i \in 1..Len(lines) |->
                match_inline_label(lines[i], AliasTokens(LabelMap(tpl)),
                                   LabelMap(tpl))]

\* label_positions.get(field): the first value-less label line of the
\* field, 0 when there is none
LabelPosition(matches, field) ==
    With({i \in 1..Len(matches) :
             /\ matches[i] # Nothing
             /\ matches[i].field = field
             /\ matches[i].value = <<>>},
         LAMBDA at : IF at = {} THEN 0 ELSE Min(at))

INTERESSADO_WINDOW == 8
OBSERVACOES_WINDOW == 4

\* lines 311-326
InteressadoHint(sugg, lines, items, tpl, matches) ==
    With(LabelPosition(matches, "interessado"), LAMBDA idx :
    With({j \in (idx + 1)..Min({Len(lines), idx + INTERESSADO_WINDOW - 1}) :
             /\ matches[j] = Nothing
             /\ Len(strip(lines[j])) >= 3
             /\ HasAsciiLetter(strip(lines[j]))
             /\ ~LooksLikeNoise(strip(lines[j]))},
         LAMBDA picks :
             IF <<"base", "interessado">> \in DOMAIN sugg \/ idx = 0
                \/ picks = {}
             THEN sugg
             ELSE With(strip(lines[Min(picks)]), LAMBDA line :
                      add_suggestion(sugg, TemplateFields(tpl), "base",
                                     "interessado", line,
                                     line_confidence(line, items),
                                     "layout_hint"))))

\* lines 328-352
AssuntoHint(sugg, lines, items, tpl, matches) ==
    With(LabelPosition(matches, "assunto"), LAMBDA idx :
    With({j \in (idx + 1)..Len(lines) :
             /\ matches[j] # Nothing
             /\ matches[j].field \in {"observacoes", "process_key"}},
         LAMBDA stops :
    With(IF stops = {} THEN Len(lines) ELSE Min(stops) - 1, LAMBDA last :
    With(SelectSeq(<<>> \o [j \in 1..Len(lines) |->
                      IF /\ j > idx
                         /\ j <= last
                         /\ matches[j] = Nothing
                         /\ \/ Len(strip(lines[j])) >= 3
                            \/ is_short_connector(strip(lines[j]))
                         /\ HasAsciiLetter(strip(lines[j]))
                         /\ ~LooksLikeNoise(strip(lines[j]))
                      THEN strip(lines[j]) ELSE None],
                   LAMBDA l : l # None),
         LAMBDA collected :
             IF <<"base", "assunto">> \in DOMAIN sugg \/ idx = 0
                \/ collected = <<>>
             THEN sugg
             ELSE add_suggestion(sugg, TemplateFields(tpl), "base", "assunto",
                      join(collected, <<" ">>),
                      block_confidence(collected, items), "layout_hint")))))

\* lines 354-365
ObservacoesHint(sugg, lines, items, tpl, matches) ==
    With(LabelPosition(matches, "observacoes"), LAMBDA idx :
    With({j \in (idx + 1)..Min({Len(lines), idx + OBSERVACOES_WINDOW - 1}) :
             matches[j] = Nothing /\ Len(strip(lines[j])) >= 2},
         LAMBDA picks :
             IF <<"base", "observacoes">> \in DOMAIN sugg \/ idx = 0
                \/ picks = {}
             THEN sugg
             ELSE With(strip(lines[Min(picks)]), LAMBDA line :
                      add_suggestion(sugg, TemplateFields(tpl), "base",
                                     "observacoes", line,
                                     line_confidence(line, items),
                                     "layout_hint"))))

\* lines 311-365
AfterHints(sugg, lines, items, tpl) ==
    With(LabelMatches(lines, tpl), LAMBDA matches :
        ObservacoesHint(
            AssuntoHint(
                InteressadoHint(sugg, lines, items, tpl, matches),
                lines, items, tpl, matches),
            lines, items, tpl, matches))

\* ------------------------------------------------- _apply_regex_fallbacks
TC_FALLBACK_CONFIDENCE == 3500
FALLBACK_CONFIDENCE == 3000

Heuristic(value, confidence) ==
    [value |-> value, confidence |-> confidence, source |-> "heuristic"]

\* the positions where word starts, in any case, after a \b
WordStarts(s, word) ==
    {i \in 1..Len(s) : WordBoundary(s, i) /\ StartsWithAt(s, i, word)}

\* line 401: \bTC\s*[\d./-]{3,}\b; the ends of the matches that start at i
TcEnds(s, i) ==
    LET p == i + 2 + Len(TakeWhile(SubSeq(s, i + 2, Len(s)), Whitespace))
        run == Len(TakeWhile(SubSeq(s, p, Len(s)),
                             Digits \cup {".", "/", "-"}))
    IN  {e \in (p + 2)..(p + run - 1) : WordBoundary(s, e + 1)}

\* lines 400-407
TcFallback(s) ==
    LET at == {i \in WordStarts(s, <<"t", "c">>) : TcEnds(s, i) # {}}
    IN  IF at = {} THEN None
        ELSE replace(SubSeq(s, Min(at), Max(TcEnds(s, Min(at)))),
                     <<" ">>, <<>>)

\* line 413: \bDATA\s*([0-9]{1,2}[./-][0-9]{1,2}[./-][0-9]{2,4}); group 1
\* of the match that starts at i, the quantifiers taking all they can
DateGroupAt(s, i) ==
    LET p == i + 4 + Len(TakeWhile(SubSeq(s, i + 4, Len(s)), Whitespace))
        fits == {t \in (1..2) \X (1..2) \X (2..4) :
                   DateFits(s, p, t[1], t[2], t[3])}
        first == CHOOSE t \in fits :
                    \A u \in fits :
                        \/ t[1] > u[1]
                        \/ t[1] = u[1] /\ t[2] > u[2]
                        \/ t[1] = u[1] /\ t[2] = u[2] /\ t[3] >= u[3]
    IN  IF fits = {} THEN None
        ELSE SubSeq(s, p, p + first[1] + first[2] + first[3] + 1)

\* lines 412-417
DataFallback(s) ==
    LET at == {i \in WordStarts(s, <<"d", "a", "t", "a">>) :
                 DateGroupAt(s, i) # None}
    IN  IF at = {} THEN None ELSE parse_date(DateGroupAt(s, Min(at)))

\* line 419: \bPROC\.?\s*([0-9./*-]+); group 1 of the match at i
ProcGroupAt(s, i) ==
    LET d == IF i + 4 <= Len(s) /\ s[i + 4] = "." THEN 1 ELSE 0
        p == i + 4 + d
             + Len(TakeWhile(SubSeq(s, i + 4 + d, Len(s)), Whitespace))
        g == TakeWhile(SubSeq(s, p, Len(s)), KeyChars)
        \* without the optional full stop, which then starts the group
        g0 == TakeWhile(SubSeq(s, i + 4, Len(s)), KeyChars)
    IN  IF g # <<>> THEN g ELSE IF g0 # <<>> THEN g0 ELSE None

\* lines 418-422
ProcFallback(s) ==
    With({i \in WordStarts(s, <<"p", "r", "o", "c">>) :
             ProcGroupAt(s, i) # None},
         LAMBDA at :
             IF at = {} THEN None
             ELSE With(ProcGroupAt(s, Min(at)), LAMBDA g :
                      With(parse_process_key(g), LAMBDA key :
                          IF key # None THEN key ELSE g)))

\* line 424: \bVALOR\s*([A-Z$\\s]*[0-9\\.,]+) with IGNORECASE: the first
\* class is the letters, '$', backslash and the letter s, the second the
\* digits, backslash, '.' and ','; group 1 of the match at i
ValorGroupAt(s, i) ==
    LET p == i + 5 + Len(TakeWhile(SubSeq(s, i + 5, Len(s)), Whitespace))
        lead == TakeWhile(SubSeq(s, p, Len(s)),
                          UpperAZ \cup LowerAZ \cup {"$", "\\"})
        Tail2(n) == TakeWhile(SubSeq(s, p + n, Len(s)),
                              Digits \cup {"\\", ".", ","})
        ns == {n \in 0..Len(lead) : Tail2(n) # <<>>}
    IN  IF ns = {} THEN None
        ELSE SubSeq(s, p, p + Max(ns) + Len(Tail2(Max(ns))) - 1)

\* lines 423-428
ValorFallback(s) ==
    LET at == {i \in WordStarts(s, <<"v", "a", "l", "o", "r">>) :
                 ValorGroupAt(s, i) # None}
    IN  IF at = {} THEN None ELSE parse_decimal(ValorGroupAt(s, Min(at)))

\* variant: the pattern's value replaces the slot's suggestion
FallbackReplacing(sugg, field, value, confidence) ==
    IF value = None THEN sugg
    ELSE Put(sugg, <<"base", field>>, Heuristic(value, confidence))

\* one fallback: the slot is filled only when it is empty and the pattern
\* gave a value
Fallback(sugg, field, value, confidence) ==
    IF <<"base", field>> \in DOMAIN sugg \/ value = None THEN sugg
    ELSE Put(sugg, <<"base", field>>, Heuristic(value, confidence))

\* lines 398-428; s is the whole text
apply_regex_fallbacks(s, sugg) ==
    Fallback(
        Fallback(
            Fallback(
                Fallback(
                    Fallback(sugg, "tc_numero", TcFallback(s),
                             TC_FALLBACK_CONFIDENCE),
                    "ano", parse_year(s), FALLBACK_CONFIDENCE),
                "data", DataFallback(s), FALLBACK_CONFIDENCE),
            "process_key", ProcFallback(s), FALLBACK_CONFIDENCE),
        "valor", ValorFallback(s), FALLBACK_CONFIDENCE)

\* lines 189-368 in one piece
map_fields_to_ficha(lines, items, tpl) ==
    With(NonBlank(lines), LAMBDA nb :
        apply_regex_fallbacks(
            join(lines, <<"\n">>),
            AfterHints(AfterPairs(AfterBlocks(<<>>, nb, items, tpl),
                                  nb, items, tpl),
                       nb, items, tpl)))

\* ------------------------------------------- runs of map_fields_to_ficha
\* "Processo: PROC-123", the line of test_map_fields_to_ficha_base
ProcessoLine ==
    <<<<"P", "r", "o", "c", "e", "s", "s", "o", ":", " ", "P", "R", "O", "C", "-", "1", "2", "3">>>>
\* the same line without the space after the colon
ProcessoTight ==
    <<<<"P", "r", "o", "c", "e", "s", "s", "o", ":", "P", "R", "O", "C", "-", "1", "2", "3">>>>
\* "Setor: Financeiro", the line of test_map_fields_to_ficha_extras
SetorLine ==
    <<<<"S", "e", "t", "o", "r", ":", " ", "F", "i", "n", "a", "n", "c", "e", "i", "r", "o">>>>
\* a standalone ASSUNTO label, three lines, the next label and its value
AssuntoBlock ==
    <<<<"A", "S", "S", "U", "N", "T", "O">>,
      <<"C", "A", "R", "T", "A", " ", "C", "O", "N", "V", "I", "T", "E", " ", "1", "9", "/", "8", "0">>,
      <<"2", "3", ".", "1", "0", ".", "8", "0">>,
      <<"V", "O", "L", "U", "M", "E", "S", " ", "D", "O", " ", "J", "O", "R", "N", "A", "L">>,
      <<"D", "A", "T", "A">>,
      <<"1", ".", "2", ".", "8", "0">>>>
\* an INTERESSADO label followed at once by another label line
InteressadoHintText ==
    <<<<"I", "N", "T", "E", "R", "E", "S", "S", "A", "D", "O">>,
      <<"A", "N", "O">>,
      <<"F", "u", "l", "a", "n", "o">>>>

\* a standalone ASSUNTO label, a line, a blank line and one more line
BlankLineText ==
    <<<<"A", "S", "S", "U", "N", "T", "O">>,
      <<"C", "A", "R", "T", "A", " ", "C", "O", "N", "V", "I", "T", "E", " ", "1", "9", "/", "8", "0">>,
      <<>>,
      <<"V", "O", "L", "U", "M", "E", "S", " ", "D", "O", " ", "J", "O", "R", "N", "A", "L">>>>

\* two labelled lines and a line with a TC number, a process key and a year
FallbackText ==
    <<<<"S", "e", "t", "o", "r", ":", " ", "F", "i", "n", "a", "n", "c", "e", "i", "r", "o">>,
      <<"A", "n", "o", ":", " ", "1", "9", "7", "9">>,
      <<"r", "e", "f", " ", "T", "C", " ", "6", "6", "5", "0", "/", "8", "0", " ", "p", "r", "o", "c", ".", " ", "1", "2", ".", "3", "*", "4", " ", "e", "m", " ", "1", "9", "8", "0">>>>

\* the schema of test_map_fields_to_ficha_extras: one text field "setor"
SetorTemplate ==
    << [field_id |-> "setor", spelling |-> <<"s", "e", "t", "o", "r">>,
        label |-> <<"S", "e", "t", "o", "r">>, type |-> "text", options |-> {}] >>
MapTexts == {ProcessoLine, ProcessoTight, SetorLine, AssuntoBlock,
             InteressadoHintText, BlankLineText, FallbackText}
\* the confidence the OCR reports for every item: 0.01, 0.85 and 1.0
ItemConfidences == {100, 8500, 10000}
MapTemplates == {<<>>, SetorTemplate}
MapInputs ==
    [text : MapTexts, confidence : ItemConfidences, template : MapTemplates]

\* the inputs of the repeated runs
MaxRuns == 3
RunInputs ==
    [text : {ProcessoLine, SetorLine, InteressadoHintText},
     confidence : {8500}, template : {<<>>}]

\* one OCR item per line of text, as the provider reports them
ItemsOf(lines, confidence) ==
    [i \in 1..Len(NonBlank(lines)) |->
        [text |-> NonBlank(lines)[i], confidence |-> confidence]]

MapInit ==
    /\ JobInit
    /\ settingTimeout = OCR_TIMEOUT_SECONDS
    /\ farg = <<>>
    /\ fres = <<>>
    /\ fpc = "done"
    /\ MapIdle

\* variant: the suggestions dict outlives the call
MapCallKeeping(inputs, maxRuns) ==
    /\ mpc = "idle"
    /\ Len(returned) < maxRuns
    /\ \E inp \in inputs :
          /\ text' = inp.text
          /\ ocr_items' = ItemsOf(inp.text, inp.confidence)
          /\ template' = inp.template
    /\ suggestions' = suggestions
    /\ mpc' = "blocks"
    /\ UNCHANGED <<jobVars, settingTimeout, farg, fres, fpc, returned>>

\* lines 189-231: a call; suggestions = {"base": {}, "extras": {}}
MapCall(inputs, maxRuns) ==
    /\ mpc = "idle"
    /\ Len(returned) < maxRuns
    /\ \E inp \in inputs :
          /\ text' = inp.text
          /\ ocr_items' = ItemsOf(inp.text, inp.confidence)
          /\ template' = inp.template
    /\ suggestions' = <<>>
    /\ mpc' = "blocks"
    /\ UNCHANGED <<jobVars, settingTimeout, farg, fres, fpc, returned>>

\* lines 255-257
BlockPass ==
    /\ mpc = "blocks"
    /\ suggestions' = AfterBlocks(suggestions, NonBlank(text), ocr_items,
                                  template)
    /\ mpc' = "pairs"
    /\ UNCHANGED <<jobVars, settingTimeout, farg, fres, fpc, template, text,
                   ocr_items, returned>>

\* lines 259-271
KeyValuePass ==
    /\ mpc = "pairs"
    /\ suggestions' = AfterPairs(suggestions, NonBlank(text), ocr_items,
                                 template)
    /\ mpc' = "hints"
    /\ UNCHANGED <<jobVars, settingTimeout, farg, fres, fpc, template, text,
                   ocr_items, returned>>

\* lines 273-365
LayoutHints ==
    /\ mpc = "hints"
    /\ suggestions' = AfterHints(suggestions, NonBlank(text), ocr_items,
                                 template)
    /\ mpc' = "fallbacks"
    /\ UNCHANGED <<jobVars, settingTimeout, farg, fres, fpc, template, text,
                   ocr_items, returned>>

\* line 367
RegexFallbacks ==
    /\ mpc = "fallbacks"
    /\ suggestions' = apply_regex_fallbacks(join(text, <<"\n">>), suggestions)
    /\ mpc' = "return"
    /\ UNCHANGED <<jobVars, settingTimeout, farg, fres, fpc, template, text,
                   ocr_items, returned>>

\* line 368: the caller receives the dict
MapReturn ==
    /\ mpc = "return"
    /\ returned' = Append(returned,
                          [text |-> text, ocr_items |-> ocr_items,
                           template |-> template,
                           suggestions |-> suggestions])
    /\ mpc' = "idle"
    /\ UNCHANGED <<jobVars, settingTimeout, farg, fres, fpc, suggestions,
                   template, text, ocr_items>>

\* one call on any of the inputs
MapNext ==
    \/ MapCall(MapInputs, 1)
    \/ BlockPass
    \/ KeyValuePass
    \/ LayoutHints
    \/ RegexFallbacks
    \/ MapReturn

MapSpec == MapInit /\ [][MapNext]_vars

\* calls one after the other
RunsNext ==
    \/ MapCall(RunInputs, MaxRuns)
    \/ BlockPass
    \/ KeyValuePass
    \/ LayoutHints
    \/ RegexFallbacks
    \/ MapReturn

RunsSpec == MapInit /\ [][RunsNext]_vars

\* ------------------------------------------------------------- ocr_extract
\* services/ocr/provider.py.  The call's arguments and the settings it reads
\* are the record farg; fres is what the call has done so far: the error it
\* raised (None while none) and the backend functions it has called.
IsSuffix(p, s) == Len(p) <= Len(s) /\ SubSeq(s, Len(s) - Len(p) + 1, Len(s)) = p

\* value or "" for an Optional[str]
OrEmpty(value) == IF value = None THEN <<>> ELSE value

\* mimetypes.guess_type(filename)[0] on the extensions of the inputs
guess_type(filename) ==
    IF IsSuffix(<<".", "p", "d", "f">>, lower(filename)) THEN <<"a", "p", "p", "l", "i", "c", "a", "t", "i", "o", "n", "/", "p", "d", "f">>
    ELSE IF IsSuffix(<<".", "p", "n", "g">>, lower(filename)) THEN <<"i", "m", "a", "g", "e", "/", "p", "n", "g">>
    ELSE IF IsSuffix(<<".", "t", "i", "f">>, lower(filename)) \/ IsSuffix(<<".", "t", "i", "f", "f">>, lower(filename))
    THEN <<"i", "m", "a", "g", "e", "/", "t", "i", "f", "f">>
    ELSE None

\* lines 20-25
normalize_mime_type(mime_type, filename) ==
    With(lower(strip(split(OrEmpty(mime_type), ";")[1])),
         LAMBDA normalized :
             IF normalized = <<"a", "p", "p", "l", "i", "c", "a", "t", "i", "o", "n", "/", "o", "c", "t", "e", "t", "-", "s", "t", "r", "e", "a", "m">> /\ OrEmpty(filename) # <<>>
             THEN lower(OrEmpty(guess_type(filename)))
             ELSE normalized)

\* lines 28-34
is_pdf_like(mime_type, filename) ==
    \/ mime_type \in {<<"a", "p", "p", "l", "i", "c", "a", "t", "i", "o", "n", "/", "p", "d", "f">>, <<"a", "p", "p", "l", "i", "c", "a", "t", "i", "o", "n", "/", "x", "-", "p", "d", "f">>,
                      <<"i", "m", "a", "g", "e", "/", "t", "i", "f", "f">>, <<"i", "m", "a", "g", "e", "/", "t", "i", "f">>}
    \/ \E suffix \in {<<".", "p", "d", "f">>, <<".", "t", "i", "f">>, <<".", "t", "i", "f", "f">>} :
           IsSuffix(suffix, lower(OrEmpty(filename)))

\* lines 44-45: settings.GCS_OCR_BUCKET or settings.GCS_BUCKET
get_bucket(settings) ==
    IF settings.GCS_OCR_BUCKET \notin {None, <<>>} THEN settings.GCS_OCR_BUCKET
    ELSE settings.GCS_BUCKET

\* line 49: (settings.GCP_OCR_PROVIDER or "google_vision").strip().lower()
provider_name(settings) ==
    lower(strip(IF settings.GCP_OCR_PROVIDER \in {None, <<>>}
                THEN <<"g", "o", "o", "g", "l", "e", "_", "v", "i", "s", "i", "o", "n">> ELSE settings.GCP_OCR_PROVIDER))

\* variant: a missing bucket is only warned about, whatever the input
validate_ocr_config_warning(settings, require_bucket_for_pdf) ==
    IF provider_name(settings) # <<"g", "o", "o", "g", "l", "e", "_", "v", "i", "s", "i", "o", "n">>
    THEN "GCP_OCR_PROVIDER invalido. Use google_vision."
    ELSE "ok"

\* lines 48-57: the ValueError raised, "ok" when none is
validate_ocr_config(settings, require_bucket_for_pdf) ==
    IF provider_name(settings) # <<"g", "o", "o", "g", "l", "e", "_", "v", "i", "s", "i", "o", "n">>
    THEN "GCP_OCR_PROVIDER invalido. Use google_vision."
    ELSE IF require_bucket_for_pdf /\ get_bucket(settings) \in {None, <<>>}
    THEN "GCS_OCR_BUCKET nao configurado para OCR de PDF/TIFF."
    ELSE "ok"

\* the uploads and settings tried
FileBytes == {<<>>, <<"%", "P", "D", "F">>}
MimeTypes ==
    {None, <<"a", "p", "p", "l", "i", "c", "a", "t", "i", "o", "n", "/", "p", "d", "f">>, <<"A", "P", "P", "L", "I", "C", "A", "T", "I", "O", "N", "/", "P", "D", "F", ";", " ", "q">>, <<"i", "m", "a", "g", "e", "/", "p", "n", "g">>,
     <<"i", "m", "a", "g", "e", "/", "t", "i", "f", "f">>, <<"a", "p", "p", "l", "i", "c", "a", "t", "i", "o", "n", "/", "o", "c", "t", "e", "t", "-", "s", "t", "r", "e", "a", "m">>}
Filenames == {None, <<"a", ".", "p", "d", "f">>, <<"a", ".", "p", "n", "g">>, <<"a", ".", "T", "I", "F", "F">>}
ProviderSettings ==
    {None, <<>>, <<"g", "o", "o", "g", "l", "e", "_", "v", "i", "s", "i", "o", "n">>, <<" ", "G", "o", "o", "g", "l", "e", "_", "V", "i", "s", "i", "o", "n", " ">>, <<"t", "e", "s", "s", "e", "r", "a", "c", "t">>}
BucketSettings == {None, <<>>, <<"b">>}

OcrCalls ==
    [file_bytes : FileBytes, mime_type : MimeTypes, filename : Filenames,
     GCP_OCR_PROVIDER : ProviderSettings, GCS_OCR_BUCKET : BucketSettings,
     GCS_BUCKET : BucketSettings]

ProviderInit ==
    /\ JobInit
    /\ settingTimeout = OCR_TIMEOUT_SECONDS
    /\ farg \in OcrCalls
    /\ fres = [error |-> "none", backend |-> <<>>]
    /\ fpc = "ocr_extract"
    /\ MapIdle

\* line 66
CheckFileBytes ==
    /\ fpc = "ocr_extract"
    /\ IF farg.file_bytes = <<>>
       THEN /\ fres' = [fres EXCEPT !.error = "Arquivo vazio."]
            /\ fpc' = "raised"
       ELSE /\ fpc' = "validate"
            /\ UNCHANGED fres
    /\ UNCHANGED <<jobVars, settingTimeout, farg, mapVars>>

\* lines 69-72
ValidateOcrConfig ==
    /\ fpc = "validate"
    /\ With(validate_ocr_config(
                farg,
                is_pdf_like(normalize_mime_type(farg.mime_type, farg.filename),
                            farg.filename)),
            LAMBDA error :
                IF error # "ok"
                THEN /\ fres' = [fres EXCEPT !.error = error]
                     /\ fpc' = "raised"
                ELSE /\ fpc' = "backend"
                     /\ UNCHANGED fres)
    /\ UNCHANGED <<jobVars, settingTimeout, farg, mapVars>>

\* lines 93-114: the one call into google_vision, which returns or raises
CallBackend ==
    /\ fpc = "backend"
    /\ fres' = [fres EXCEPT !.backend =
                   Append(@, IF is_pdf_like(normalize_mime_type(farg.mime_type,
                                                                farg.filename),
                                            farg.filename)
                             THEN "extract_from_pdf_bytes"
                             ELSE "extract_from_image_bytes")]
    /\ fpc' \in {"returned", "raised"}
    /\ UNCHANGED <<jobVars, settingTimeout, farg, mapVars>>

ProviderNext == CheckFileBytes \/ ValidateOcrConfig \/ CallBackend

ProviderSpec == ProviderInit /\ [][ProviderNext]_vars

\* ----------------------------------------- the loop of _collect_label_blocks
\* The loop of lines 148-166 one line at a time.  farg is the list of lines,
\* fres the locals of the call: the number of lines consumed, results,
\* current and buffer.
BaseLabelMap == LabelMap(<<>>)
BaseAliasTokens == AliasTokens(BaseLabelMap)

\* the lines the lists are made of: a label alone, a label with its value,
\* two lines that match no label, an empty line and a line of blanks
CollectLines ==
    {<<"A", "S", "S", "U", "N", "T", "O">>, <<"D", "a", "t", "a", ":", " ", "1", ".", "2", ".", "8", "0">>, <<"C", "A", "R", "T", "A", " ", "C", "O", "N", "V", "I", "T", "E", " ", "1", "9", "/", "8", "0">>,
     <<" ", "V", "O", "L", "U", "M", "E", "S", " ", " ", "D", "O", " ", "J", "O", "R", "N", "A", "L", " ">>, <<>>, <<" ", " ">>}
MaxLines == 3
CollectInputs == StringsUpTo(CollectLines, MaxLines)
\* one OCR item per line of text, each of confidence 0.85
CollectItems(lines) == ItemsOf(lines, 8500)

CollectInit ==
    /\ JobInit
    /\ settingTimeout = OCR_TIMEOUT_SECONDS
    /\ farg \in CollectInputs
    /\ fres = [at |-> 0, results |-> <<>>, current |-> Nothing,
               buffer |-> <<>>]
    /\ fpc = "loop"
    /\ MapIdle

\* variant: a label line that carries its value leaves the open block open
collect_line_keeping(line, locals, items) ==
    With(match_inline_label(line, BaseAliasTokens, BaseLabelMap), LAMBDA match :
    With(Flushed(locals.results, locals.current, locals.buffer, items),
         LAMBDA flushed :
             IF strip(line) = <<>>
             THEN [locals EXCEPT !.results = flushed, !.current = Nothing,
                                 !.buffer = <<>>]
             ELSE IF match # Nothing
             THEN IF match.value # <<>>
                  THEN [locals EXCEPT
                           !.results =
                               Append(locals.results,
                                   [group |-> match.group,
                                    field |-> match.field,
                                    value |-> match.value,
                                    confidence |-> confidence_badge(
                                        line_confidence(line, items),
                                        match.score)])]
                  ELSE [locals EXCEPT
                           !.results = flushed,
                           !.current = [group |-> match.group,
                                        field |-> match.field,
                                        score |-> match.score],
                           !.buffer = <<>>]
             ELSE IF locals.current # Nothing
             THEN [locals EXCEPT !.buffer = Append(@, strip(line))]
             ELSE locals))

\* lines 149-164: the body of the loop on one line
collect_line(line, locals, items) ==
    With(match_inline_label(line, BaseAliasTokens, BaseLabelMap), LAMBDA match :
    With(Flushed(locals.results, locals.current, locals.buffer, items),
         LAMBDA flushed :
             IF strip(line) = <<>>
             THEN [locals EXCEPT !.results = flushed, !.current = Nothing,
                                 !.buffer = <<>>]
             ELSE IF match # Nothing
             THEN IF match.value # <<>>
                  THEN [locals EXCEPT
                           !.results =
                               Append(flushed,
                                   [group |-> match.group,
                                    field |-> match.field,
                                    value |-> match.value,
                                    confidence |-> confidence_badge(
                                        line_confidence(line, items),
                                        match.score)]),
                           !.current = Nothing,
                           !.buffer = <<>>]
                  ELSE [locals EXCEPT
                           !.results = flushed,
                           !.current = [group |-> match.group,
                                        field |-> match.field,
                                        score |-> match.score],
                           !.buffer = <<>>]
             ELSE IF locals.current # Nothing
             THEN [locals EXCEPT !.buffer = Append(@, strip(line))]
             ELSE locals))

\* line 148: the next line of the list
CollectLine ==
    /\ fpc = "loop"
    /\ fres.at < Len(farg)
    /\ fres' = [collect_line(farg[fres.at + 1], fres,
                             CollectItems(farg))
                  EXCEPT !.at = fres.at + 1]
    /\ UNCHANGED <<jobVars, settingTimeout, farg, fpc, mapVars>>

\* lines 165-166: the flush after the loop, and the return
CollectEnd ==
    /\ fpc = "loop"
    /\ fres.at = Len(farg)
    /\ fres' = [fres EXCEPT
                   !.results = Flushed(fres.results, fres.current, fres.buffer,
                                       CollectItems(farg)),
                   !.current = Nothing,
                   !.buffer = <<>>]
    /\ fpc' = "returned"
    /\ UNCHANGED <<jobVars, settingTimeout, farg, mapVars>>

CollectNext == CollectLine \/ CollectEnd

CollectSpec == CollectInit /\ [][CollectNext]_vars

\* ------------------------------------------------------------ _with_retries
\* services/ocr/google_vision.py, lines 151-163.  farg is the call (label,
\* retries); fres holds the local attempt, the number of calls of func made,
\* the delays slept and how the call ended.  func returns, raises a
\* GoogleAPICallError or raises something else, as it pleases.
MaxRetries == 5
RetryLabels == {"image", "pdf"}

RetryInit ==
    /\ JobInit
    /\ settingTimeout = OCR_TIMEOUT_SECONDS
    /\ farg \in [label : RetryLabels, retries : -1..MaxRetries]
    /\ fres = [attempt |-> 0, calls |-> 0, slept |-> <<>>, outcome |-> "none"]
    /\ fpc = "call"
    /\ MapIdle

\* line 155: func() returns
FuncReturns ==
    /\ fpc = "call"
    /\ fres' = [fres EXCEPT !.calls = @ + 1, !.outcome = "returned"]
    /\ fpc' = "done"
    /\ UNCHANGED <<jobVars, settingTimeout, farg, mapVars>>

\* variant: the last retry is not made
FuncRaisesApiErrorEarly ==
    /\ fpc = "call"
    /\ IF fres.attempt + 1 >= farg.retries
       THEN /\ fres' = [fres EXCEPT !.calls = @ + 1, !.attempt = @ + 1,
                                    !.outcome = "GoogleAPICallError"]
            /\ fpc' = "done"
       ELSE /\ fres' = [fres EXCEPT
                           !.calls = @ + 1, !.attempt = @ + 1,
                           !.slept = Append(@, Min({2 ^ (fres.attempt + 1), 8}))]
            /\ fpc' = "call"
    /\ UNCHANGED <<jobVars, settingTimeout, farg, mapVars>>

\* lines 156-163: func() raises a GoogleAPICallError
FuncRaisesApiError ==
    /\ fpc = "call"
    /\ IF fres.attempt + 1 > farg.retries
       THEN /\ fres' = [fres EXCEPT !.calls = @ + 1, !.attempt = @ + 1,
                                    !.outcome = "GoogleAPICallError"]
            /\ fpc' = "done"
       ELSE /\ fres' = [fres EXCEPT
                           !.calls = @ + 1, !.attempt = @ + 1,
                           !.slept = Append(@, Min({2 ^ (fres.attempt + 1), 8}))]
            /\ fpc' = "call"
    /\ UNCHANGED <<jobVars, settingTimeout, farg, mapVars>>

\* line 155: func() raises an exception the except clause does not name
FuncRaisesOther ==
    /\ fpc = "call"
    /\ fres' = [fres EXCEPT !.calls = @ + 1, !.outcome = "Exception"]
    /\ fpc' = "done"
    /\ UNCHANGED <<jobVars, settingTimeout, farg, mapVars>>

RetryNext == FuncReturns \/ FuncRaisesApiError \/ FuncRaisesOther

\* every call of func comes back: the client calls carry a timeout
RetrySpec == RetryInit /\ [][RetryNext]_vars /\ WF_vars(RetryNext)

\* ---------------------------------------------------------- _line_confidence
\* Calls of _line_confidence on its own: farg is the call (line, ocr_items),
\* fres the confidence returned.  The items are those process_ocr_job hands
\* on as the OCR engine gave them (build_ocr_result keeps every item, also
\* one whose text is empty).
MaxItems == 3
ConfidenceLines == {<<"A", "S", "S", "U", "N", "T", "O">>, <<"F", "u", "l", "a", "n", "o", " ", "d", "e", " ", "T", "a", "l">>}
ConfidenceItems ==
    [text : ConfidenceLines \cup {<<>>}, confidence : {2000, 9000}]
ConfidenceCalls ==
    [line : ConfidenceLines, items : StringsUpTo(ConfidenceItems, MaxItems)]

ConfidenceInit ==
    /\ JobInit
    /\ settingTimeout = OCR_TIMEOUT_SECONDS
    /\ farg \in ConfidenceCalls
    /\ fres = <<>>
    /\ fpc = "ready"
    /\ MapIdle

\* lines 169-180
LineConfidence ==
    /\ fpc = "ready"
    /\ fres' = line_confidence(farg.line, farg.items)
    /\ fpc' = "done"
    /\ UNCHANGED <<jobVars, settingTimeout, farg, mapVars>>

ConfidenceNext == LineConfidence

ConfidenceSpec == ConfidenceInit /\ [][ConfidenceNext]_vars

\* ------------------------------------------------------------------ claims
\* C1: the persisted status of a job only ever changes along
\* queued -> processing, processing -> done and processing -> failed.
StatusEdgesMonotonic ==
    [][\A j \in DOMAIN db :
          db'[j].status # db[j].status
             => <<db[j].status, db'[j].status>>
                    \in {<<"queued", "processing">>,
                         <<"processing", "done">>,
                         <<"processing", "failed">>}]_vars

\* C2: once the watchdog has marked a job failed, no later write turns it
\* into done; once the worker has marked it done, no later write turns it
\* into failed.
TerminalWritesGuarded ==
    [][\A j \in DOMAIN db :
          /\ (db[j].status = "failed" /\ db[j].error_message = TIMEOUT_MESSAGE)
                => db'[j].status # "done"
          /\ db[j].status = "done" => db'[j].status # "failed"]_vars

\* C3: suggestions or extracted text are present only on a done job.
ResultsOnlyWhenDone ==
    \A j \in DOMAIN db :
        (db[j].field_suggestions_json # NULL \/ db[j].extracted_text # NULL)
            => db[j].status = "done"

\* C4: an error message is present only on a failed job.
ErrorOnlyWhenFailed ==
    \A j \in DOMAIN db :
        db[j].error_message # NULL => db[j].status = "failed"

\* C5: started_at is written once, by the step that takes the job from
\* queued to processing, and never written again.
StartedSetOnce ==
    [][\A j \in DOMAIN db :
          db'[j].started_at # db[j].started_at
             => /\ db[j].started_at = NoTime
                /\ db[j].status = "queued"
                /\ db'[j].status = "processing"]_vars

\* C6: finished_at is written once, by the step that takes the job into a
\* terminal status, and never written again.
FinishedSetOnce ==
    [][\A j \in DOMAIN db :
          db'[j].finished_at # db[j].finished_at
             => /\ db[j].finished_at = NoTime
                /\ db[j].status \notin {"done", "failed"}
                /\ db'[j].status \in {"done", "failed"}]_vars

PollFrame ==
    [][/\ (ppc = "start" /\ ppc' # "start" /\ pid \in DOMAIN db)
            => /\ db' = db
               /\ ppc' = "write" <=>
                     /\ db[pid].status = "processing"
                     /\ db[pid].started_at # NoTime
                     /\ clock - db[pid].started_at > OCR_TIMEOUT_SECONDS + 120
               /\ ppc' # "write" => ppc' = "idle"
       /\ (ppc = "write" /\ ppc' # "write")
            => /\ db'[pid].status = "failed"
               /\ db'[pid].finished_at # NoTime
               /\ db'[pid].started_at = db[pid].started_at
               /\ db'[pid].extracted_text = db[pid].extracted_text
               /\ db'[pid].ocr_raw_json = db[pid].ocr_raw_json
               /\ db'[pid].field_suggestions_json
                     = db[pid].field_suggestions_json
               /\ db[pid] = ploaded
                     => /\ db'[pid].error_message = TIMEOUT_MESSAGE
                        /\ db'[pid].finished_at = pcur.finished_at]_vars

\* a poll has just marked a stale job failed
PollFrameWitness ==
    /\ ppc = "idle"
    /\ presp = "failed"
    /\ pid \in DOMAIN db
    /\ db[pid].status = "failed"
    /\ db[pid].error_message = TIMEOUT_MESSAGE
    /\ db[pid].finished_at - db[pid].started_at > OCR_TIMEOUT_SECONDS + 120

MissingJobIsNoOp ==
    [][/\ (wpc = "start" /\ wpc' # "start" /\ outcome' # "crashed"
              /\ wid \notin DOMAIN db)
            => /\ db' = db
               /\ wpc' = "idle"
               /\ outcome' = "returned"
       /\ (ppc = "start" /\ ppc' # "start" /\ pid \notin DOMAIN db)
            => /\ db' = db
               /\ ppc' = "idle"
               /\ presp' = "404"]_vars

\* both the worker and the poll have handled an id that has no row
MissingJobIsNoOpWitness ==
    /\ wpc = "idle"
    /\ outcome = "returned"
    /\ wid \notin DOMAIN db
    /\ ppc = "idle"
    /\ presp = "404"
    /\ pid \notin DOMAIN db

\* C11: a job id reaches the queue only after its row was committed with
\* status queued, and the job_timeout granted is max(600, setting + 120)
\* for every configured provider timeout.
EnqueueAfterCommit ==
    /\ [][\A j \in DOMAIN enqueued' \ DOMAIN enqueued :
             j \in DOMAIN db /\ db[j].status = "queued"]_vars
    /\ [](\A j \in DOMAIN enqueued :
             /\ enqueued[j] >= 600
             /\ enqueued[j] >= settingTimeout + 120
             /\ enqueued[j] \in {600, settingTimeout + 120})

\* a job was enqueued under a setting large enough to lift the timeout
\* above the floor
EnqueueAfterCommitWitness ==
    /\ "j1" \in DOMAIN enqueued
    /\ settingTimeout > 480
    /\ enqueued["j1"] = settingTimeout + 120
    /\ db["j1"].status = "queued"
\* C20: _normalize_label is total and idempotent: normalizing its output
\* gives the output back; the output holds only characters of [a-z0-9] and
\* single interior spaces, with no leading or trailing space; the empty
\* string maps to the empty string.
NormalizeIdempotent ==
    fpc = "done" =>
        /\ normalize_label(fres) = fres
        /\ \A i \in 1..Len(fres) : fres[i] \in LowerAZ \cup Digits \cup {" "}
        /\ \A i \in 1..(Len(fres) - 1) : ~(fres[i] = " " /\ fres[i + 1] = " ")
        /\ fres # <<>> => fres[1] # " " /\ fres[Len(fres)] # " "
        /\ farg = <<>> => fres = <<>>

\* an accented, upper-case, punctuated label has been normalized
NormalizeIdempotentWitness ==
    /\ fpc = "done"
    /\ farg = <<"C<cedilla>", "-", "B">>
    /\ fres = <<"c", " ", "b">>

\* C17: _parse_decimal drops '.' as a thousands separator only when the
\* value holds both '.' and ','; "R$ 1.234,56" gives "1234.56", "1234.56"
\* gives "1234.56", and a value with a single '.' and no ',' keeps its
\* numeric value.
DecimalKeepsMark ==
    LET RECURSIVE Pow10(_)
        Pow10(n) == IF n = 0 THEN 1 ELSE 10 * Pow10(n - 1)
        HasDot(s) == \E i \in 1..Len(s) : s[i] = "."
        \* digits with at most one '.'
        IsPlainDecimal(s) ==
            /\ \A i \in 1..Len(s) : s[i] \in Digits \cup {"."}
            /\ \A i, j \in 1..Len(s) : s[i] = "." /\ s[j] = "." => i = j
            /\ \E i \in 1..Len(s) : s[i] \in Digits
        Mant(s) == to_int(SelectSeq(s, LAMBDA ch : ch \in Digits))
        Frac(s) == IF HasDot(s)
                   THEN Len(s) - (CHOOSE i \in 1..Len(s) : s[i] = ".")
                   ELSE 0
        SameNumber(a, b) ==
            Mant(a) * Pow10(Frac(b)) = Mant(b) * Pow10(Frac(a))
    IN  fpc = "done" =>
        /\ farg = <<"R", "$", " ", "1", ".", "2", "3", "4", ",", "5", "6">>
              => fres = <<"1", "2", "3", "4", ".", "5", "6">>
        /\ farg = <<"1", "2", "3", "4", ".", "5", "6">>
              => fres = <<"1", "2", "3", "4", ".", "5", "6">>
        /\ (IsPlainDecimal(farg) /\ HasDot(farg))
              => IsPlainDecimal(fres) /\ SameNumber(fres, farg)

\* C13: in add_suggestion a candidate whose value parses replaces the
\* stored suggestion of its slot only when its confidence is strictly
\* greater; with equal or lower confidence the earlier suggestion (value,
\* confidence and source) is kept; the stored confidence of a slot never
\* decreases.
StrictlyGreaterReplaces ==
    [][LET slot == <<farg'.group, farg'.field>>
           had == slot \in DOMAIN suggestions
       IN  /\ \A k \in DOMAIN suggestions :
                 /\ k \in DOMAIN suggestions'
                 /\ suggestions'[k].confidence >= suggestions[k].confidence
                 /\ k # slot => suggestions'[k] = suggestions[k]
           /\ (had /\ farg'.confidence <= suggestions[slot].confidence)
                 => suggestions'[slot] = suggestions[slot]
           /\ (had /\ suggestions'[slot] # suggestions[slot])
                 => /\ farg'.confidence > suggestions[slot].confidence
                    /\ fres' # None
                    /\ suggestions'[slot] = [value |-> fres',
                                             confidence |-> farg'.confidence,
                                             source |-> farg'.source]
           /\ (had /\ fres' # None
                   /\ farg'.confidence > suggestions[slot].confidence
                   /\ ~(farg'.field = "reparticao"
                        /\ StartsWithValorPattern(farg'.value)))
                 => suggestions'[slot].source = farg'.source
      ]_vars

\* a candidate has tied with the stored suggestion of its slot, from
\* another source, and the stored one is still there
StrictlyGreaterReplacesWitness ==
    /\ fpc = "done"
    /\ fres # None
    /\ <<farg.group, farg.field>> \in DOMAIN suggestions
    /\ suggestions[<<farg.group, farg.field>>].confidence = farg.confidence
    /\ suggestions[<<farg.group, farg.field>>].source # farg.source

\* C18: for a schema field of type enum, a candidate whose trimmed value
\* is not one of the declared options is rejected: the slot of the field
\* is left as it was.
EnumRejectsNonOption ==
    [][\A i \in 1..Len(template) :
          (/\ template[i].type = "enum"
           /\ farg'.group = "extras"
           /\ farg'.field = template[i].field_id
           /\ strip(farg'.value) \notin template[i].options)
          => LET slot == <<"extras", template[i].field_id>>
             IN  /\ slot \in DOMAIN suggestions' <=> slot \in DOMAIN suggestions
                 /\ slot \in DOMAIN suggestions
                       => suggestions'[slot] = suggestions[slot]
      ]_vars

\* C12: the result of map_fields_to_ficha holds at most one suggestion
\* per (group, field) -- it is a dict keyed by them -- and the confidence
\* of every suggestion, whatever its source, lies in [0.05, 1.0].
ConfidenceInRange ==
    mpc = "return" =>
        \A slot \in DOMAIN suggestions :
            /\ suggestions[slot].confidence >= CONF_FLOOR
            /\ suggestions[slot].confidence <= CONF_ONE

\* C14 as stated: for a single `label: value` line whose label is a known
\* alias, the matched field's suggestion holds the value the field's
\* parser extracts and has source "key_value".
KeyValueLineSource ==
    (/\ mpc = "return"
     /\ Len(text) = 1
     /\ key_value_of(text[1]) # Nothing
     /\ \E i \in 1..Len(LabelMap(template)) :
           LabelMap(template)[i].label
             = normalize_label(key_value_of(text[1]).key))
    => LET pair == key_value_of(text[1])
           entry == Lookup(LabelMap(template), normalize_label(pair.key))
           slot == <<entry.group, entry.field>>
       IN  /\ slot \in DOMAIN suggestions
           /\ suggestions[slot].value
                = parse_value(entry.field, pair.value,
                              TemplateFields(template))
           /\ suggestions[slot].source = "key_value"

\* C14 amended: for a single `label: value` line whose label is a known
\* one-word alias and whose value the field's parser accepts, the matched
\* field's suggestion holds the value the parser extracts. Its source is
\* "label_block" when the line starts with the alias as a token of its
\* own (with or without its colon), as in "Processo: PROC-123": the block
\* pass emits the inline match first and the key-value candidate only
\* ties with it. Its source is "key_value" when no whitespace sets the
\* label apart, as in "Processo:PROC-123".
KeyValueLineSourceAmended ==
    LET map == LabelMap(template)
        pair == key_value_of(text[1])
        entry == Lookup(map, normalize_label(pair.key))
        slot == <<entry.group, entry.field>>
        inline == match_inline_label(text[1], AliasTokens(map), map)
        apart == inline # Nothing /\ inline.value # <<>>
        taken == IF apart THEN inline.value ELSE pair.value
    IN  (/\ mpc = "return"
         /\ Len(text) = 1
         /\ pair # Nothing
         /\ \E i \in 1..Len(map) : map[i].label = normalize_label(pair.key)
         /\ Len(split_ws(entry.label)) = 1
         /\ apart => <<inline.group, inline.field>> = slot
         /\ parse_value(entry.field, taken, TemplateFields(template)) # None)
        => /\ slot \in DOMAIN suggestions
           /\ suggestions[slot].value
                = parse_value(entry.field, taken, TemplateFields(template))
           /\ suggestions[slot].source
                = IF apart THEN "label_block" ELSE "key_value"

\* "Processo: PROC-123" without schema has been mapped
KeyValueLineSourceWitness ==
    /\ mpc = "return"
    /\ text = ProcessoLine
    /\ template = <<>>
    /\ <<"base", "process_key">> \in DOMAIN suggestions
    /\ suggestions[<<"base", "process_key">>].value = <<"1", "2", "3">>
    /\ suggestions[<<"base", "process_key">>].source = "label_block"

\* C15 as stated: a standalone ASSUNTO label followed by non-label lines
\* gives one assunto suggestion of source "label_block" whose value is the
\* lines joined by single spaces, up to the next label line or the first
\* line that matches a date, year or currency pattern.
AssuntoBlockStopsAtPatterns ==
    LET lines == NonBlank(text)
        matches == LabelMatches(lines, template)
        stops == {j \in 2..Len(lines) :
                    \/ matches[j] # Nothing
                    \/ looks_like_date(lines[j])
                    \/ looks_like_year(lines[j])
                    \/ looks_like_value(lines[j])}
        last == IF stops = {} THEN Len(lines) ELSE Min(stops) - 1
    IN  (/\ mpc = "return"
         /\ Len(lines) >= 2
         /\ matches[1] # Nothing
         /\ matches[1].field = "assunto"
         /\ matches[1].value = <<>>
         /\ matches[2] = Nothing)
        => /\ <<"base", "assunto">> \in DOMAIN suggestions
           /\ suggestions[<<"base", "assunto">>].source = "label_block"
           /\ suggestions[<<"base", "assunto">>].value
                = join(SubSeq(lines, 2, last), <<" ">>)

\* C15 amended: a standalone ASSUNTO label followed by non-label lines,
\* in a text with no other assunto label and no `key: value` line taken
\* for assunto, gives one assunto suggestion of source "label_block" whose
\* value is all the lines up to the next label line, joined by single
\* spaces; a line that matches a date, year or currency pattern is part
\* of the value like any other.
AssuntoBlockStopsAtLabel ==
    LET lines == NonBlank(text)
        map == LabelMap(template)
        matches == LabelMatches(lines, template)
        pairs == extract_key_values(lines)
        stops == {j \in 2..Len(lines) : matches[j] # Nothing}
        last == IF stops = {} THEN Len(lines) ELSE Min(stops) - 1
    IN  (/\ mpc = "return"
         /\ Len(lines) >= 2
         /\ matches[1] # Nothing
         /\ matches[1].field = "assunto"
         /\ matches[1].value = <<>>
         /\ matches[2] = Nothing
         /\ \A j \in stops : matches[j].field # "assunto"
         /\ \A k \in 1..Len(pairs) :
               LET c == PairCandidate(pairs[k], map, ocr_items)
               IN  c # Nothing => c.field # "assunto")
        => /\ <<"base", "assunto">> \in DOMAIN suggestions
           /\ suggestions[<<"base", "assunto">>].source = "label_block"
           /\ suggestions[<<"base", "assunto">>].value
                = join(SubSeq(lines, 2, last), <<" ">>)

\* the ASSUNTO block with a date line in it has been mapped
AssuntoBlockWitness ==
    /\ mpc = "return"
    /\ text = AssuntoBlock
    /\ <<"base", "assunto">> \in DOMAIN suggestions
    /\ suggestions[<<"base", "assunto">>].source = "label_block"
    /\ Len(suggestions[<<"base", "assunto">>].value) > Len(AssuntoBlock[2])

\* C16: the label index maps every normalized alias to exactly one
\* (group, field); the schema's labels and ids are registered after the
\* static vocabulary and win: with the schema field "setor", the line
\* "Setor: Financeiro" gives extras["setor"] = "Financeiro" and no base
\* suggestion for reparticao.
SchemaAliasShadows ==
    LET map == LabelMap(template)
    IN  /\ \A i, j \in 1..Len(map) : map[i].label = map[j].label => i = j
        /\ \A n \in 1..Len(template) :
              (\A m \in (n + 1)..Len(template) :
                  /\ normalize_label(template[m].label)
                       # normalize_label(template[n].spelling)
                  /\ normalize_label(template[m].spelling)
                       # normalize_label(template[n].spelling))
              => /\ Lookup(map, normalize_label(template[n].spelling)).group
                      = "extras"
                 /\ Lookup(map, normalize_label(template[n].spelling)).field
                      = template[n].field_id
        /\ (mpc = "return" /\ text = SetorLine /\ template = SetorTemplate)
              => /\ <<"extras", "setor">> \in DOMAIN suggestions
                 /\ suggestions[<<"extras", "setor">>].value
                      = <<"F", "i", "n", "a", "n", "c", "e", "i", "r", "o">>
                 /\ <<"base", "reparticao">> \notin DOMAIN suggestions

\* "Setor: Financeiro" has been mapped under the schema with field "setor"
SchemaAliasShadowsWitness ==
    /\ mpc = "return"
    /\ text = SetorLine
    /\ template = SetorTemplate
    /\ <<"extras", "setor">> \in DOMAIN suggestions

EarlyErrorCase ==
    \/ farg.file_bytes = <<>>
    \/ provider_name(farg) # <<"g", "o", "o", "g", "l", "e", "_", "v", "i", "s", "i", "o", "n">>
    \/ /\ is_pdf_like(normalize_mime_type(farg.mime_type, farg.filename),
                      farg.filename)
       /\ farg.GCS_OCR_BUCKET \in {None, <<>>}
       /\ farg.GCS_BUCKET \in {None, <<>>}

BlankLineFlushesBlock ==
    LET matches == LabelMatches(text, template)
        blanks == {j \in 3..(Len(text) - 1) : strip(text[j]) = <<>>}
        slot == <<matches[1].group, matches[1].field>>
    IN  (/\ mpc = "pairs"
         /\ Len(text) >= 4
         /\ matches[1] # Nothing
         /\ matches[1].value = <<>>
         /\ \A j \in 2..Len(text) : matches[j] = Nothing
         /\ blanks # {}
         /\ \A j \in 2..(Min(blanks) - 1) : strip(text[j]) # <<>>
         /\ \A j \in (Min(blanks) + 1)..Len(text) : strip(text[j]) # <<>>)
        => /\ slot \in DOMAIN suggestions
           /\ suggestions[slot].source = "label_block"
           /\ suggestions[slot].value
                = join(SubSeq(text, 2, Min(blanks) - 1), <<" ">>)

\* C23: _collect_label_blocks on any list of lines.  A line closes the open
\* block when it is blank or matches a label (and the end of the list closes
\* it too); a label line with a value gives its own candidate at once and
\* leaves no block open, one without a value opens a block with an empty
\* buffer; any other line joins the buffer of the open block or is dropped.
\* So, at every point of the loop, the candidates emitted so far are, in
\* order, for each consumed line that closes a block the lines between the
\* value-less label that opened it and the closing line, stripped and
\* joined by single spaces (nothing when there is no such line), followed by
\* the line's own candidate if it carries a value; the buffer holds the
\* lines since the open block's label; and the list the loop returns is the
\* one the pipeline's block pass uses.
CollectMatch(j) == match_inline_label(farg[j], BaseAliasTokens, BaseLabelMap)

CollectCloses(j) ==
    j = Len(farg) + 1 \/ strip(farg[j]) = <<>> \/ CollectMatch(j) # Nothing

\* the line that opened the block line j is in or closes; 0 when none did
CollectOpener(j) ==
    With({i \in 1..(j - 1) : CollectCloses(i)}, LAMBDA before :
        IF before = {} THEN 0
        ELSE With(Max(before), LAMBDA last :
                 IF /\ strip(farg[last]) # <<>>
                    /\ CollectMatch(last).value = <<>>
                 THEN last
                 ELSE 0))

CollectEmittedAt(j) ==
    With(CollectOpener(j), LAMBDA opener :
        (IF CollectCloses(j) /\ opener # 0 /\ opener < j - 1
         THEN << [group |-> CollectMatch(opener).group,
                  field |-> CollectMatch(opener).field,
                  value |-> join([i \in 1..(j - 1 - opener) |->
                                     strip(farg[opener + i])],
                                 <<" ">>)] >>
         ELSE <<>>)
        \o (IF /\ j <= Len(farg)
               /\ strip(farg[j]) # <<>>
               /\ CollectMatch(j) # Nothing
               /\ CollectMatch(j).value # <<>>
            THEN << [group |-> CollectMatch(j).group,
                     field |-> CollectMatch(j).field,
                     value |-> CollectMatch(j).value] >>
            ELSE <<>>))

CollectBlocksWellFormed ==
    With(IF fpc = "returned" THEN 0 ELSE CollectOpener(fres.at + 1),
         LAMBDA open :
        /\ [i \in 1..Len(fres.results) |->
               [group |-> fres.results[i].group,
                field |-> fres.results[i].field,
                value |-> fres.results[i].value]]
             = Flatten([j \in 1..(IF fpc = "returned" THEN fres.at + 1
                                  ELSE fres.at) |-> CollectEmittedAt(j)])
        /\ (fres.current = Nothing) = (open = 0)
        /\ open # 0 =>
              /\ fres.current.field = CollectMatch(open).field
              /\ fres.current.group = CollectMatch(open).group
        /\ fres.buffer = IF open = 0 THEN <<>>
                         ELSE [i \in 1..(fres.at - open) |-> strip(farg[open + i])]
        /\ fpc = "returned" =>
              fres.results
                = collect_label_blocks(farg, BaseAliasTokens, BaseLabelMap,
                                       CollectItems(farg)))

\* a label and two lines: the loop has returned the block of the two lines
CollectBlocksWitness ==
    /\ fpc = "returned"
    /\ farg = <<<<"A", "S", "S", "U", "N", "T", "O">>, <<"C", "A", "R", "T", "A", " ", "C", "O", "N", "V", "I", "T", "E", " ", "1", "9", "/", "8", "0">>,
                <<" ", "V", "O", "L", "U", "M", "E", "S", " ", " ", "D", "O", " ", "J", "O", "R", "N", "A", "L", " ">>>>
    /\ Len(fres.results) = 1
    /\ fres.results[1].field = "assunto"
    /\ fres.results[1].value = <<"C", "A", "R", "T", "A", " ", "C", "O", "N", "V", "I", "T", "E", " ", "1", "9", "/", "8", "0", " ", "V", "O", "L", "U", "M", "E", "S", " ", " ", "D", "O", " ", "J", "O", "R", "N", "A", "L">>

\* C24: the regex fallback pass leaves every suggestion of the earlier
\* passes as it is, in base and in extras, and adds suggestions only to the
\* empty base slots tc_numero, ano, data, process_key and valor, each with
\* source "heuristic" and confidence 0.30 or 0.35; no other pass gives the
\* source "heuristic", so a heuristic suggestion is in a slot only when no
\* earlier pass filled that slot.
FallbackFields == {"tc_numero", "ano", "data", "process_key", "valor"}

FallbacksOnlyFill ==
    /\ [](\A slot \in DOMAIN suggestions :
             suggestions[slot].source = "heuristic" => mpc \in {"return", "idle"})
    /\ [][mpc = "fallbacks" =>
             /\ \A slot \in DOMAIN suggestions :
                   /\ slot \in DOMAIN suggestions'
                   /\ suggestions'[slot] = suggestions[slot]
             /\ \A slot \in DOMAIN suggestions' \ DOMAIN suggestions :
                   /\ slot[1] = "base"
                   /\ slot[2] \in FallbackFields
                   /\ suggestions'[slot].source = "heuristic"
                   /\ suggestions'[slot].confidence
                        \in {FALLBACK_CONFIDENCE, TC_FALLBACK_CONFIDENCE}]_vars

\* the pass has added tc_numero and process_key next to the ano and setor
\* suggestions of the label lines, in a text that has a second year in it
FallbacksOnlyFillWitness ==
    /\ mpc = "return"
    /\ text = FallbackText
    /\ template = SetorTemplate
    /\ <<"extras", "setor">> \in DOMAIN suggestions
    /\ <<"base", "ano">> \in DOMAIN suggestions
    /\ suggestions[<<"base", "ano">>].source = "label_block"
    /\ <<"base", "tc_numero">> \in DOMAIN suggestions
    /\ suggestions[<<"base", "tc_numero">>]
         = Heuristic(<<"T", "C", "6", "6", "5", "0", "/", "8", "0">>,
                     TC_FALLBACK_CONFIDENCE)
    /\ <<"base", "process_key">> \in DOMAIN suggestions
    /\ suggestions[<<"base", "process_key">>]
         = Heuristic(<<"1", "2", ".", "3", "*", "4">>, FALLBACK_CONFIDENCE)

\* C25: a candidate for reparticao whose trimmed value begins with the word
\* "valor", in any letter case and followed by a word boundary, is rejected
\* by add_suggestion: the reparticao slot is neither created nor changed.
BeginsWithValorWord(value) ==
    /\ StartsWithAt(strip(value), 1, <<"v", "a", "l", "o", "r">>)
    /\ WordBoundary(strip(value), 6)

ValorLeadRejected ==
    [][(farg'.field = "reparticao" /\ BeginsWithValorWord(farg'.value))
          => LET slot == <<farg'.group, "reparticao">>
             IN  /\ slot \in DOMAIN suggestions' <=> slot \in DOMAIN suggestions
                 /\ slot \in DOMAIN suggestions
                       => suggestions'[slot] = suggestions[slot]
      ]_vars

\* C26: for a candidate of group extras the parser is the one of the schema
\* field's declared type -- date: the date parser, number and currency: the
\* decimal parser, boolean: the boolean words, text and textarea: the
\* trimmed value -- whatever the field id, also when the id is the name of
\* a base field; the value parsed that way is what an empty slot receives.
ParsedByType(type, value) ==
    IF type = "date" THEN parse_date(value)
    ELSE IF type \in {"number", "currency"} THEN parse_decimal(value)
    ELSE IF type = "boolean" THEN parse_boolean(value)
    ELSE IF strip(value) = <<>> THEN None ELSE strip(value)

ExtrasParsedByDeclaredType ==
    [][(/\ farg'.group = "extras"
        /\ farg'.field \in DOMAIN TemplateFields(template)
        /\ TemplateFields(template)[farg'.field]
             \in {"date", "number", "currency", "boolean", "text", "textarea"})
          => LET slot == <<"extras", farg'.field>>
                 typed == ParsedByType(TemplateFields(template)[farg'.field],
                                       farg'.value)
             IN  /\ fres' = typed
                 /\ (typed # None /\ slot \notin DOMAIN suggestions)
                       => /\ slot \in DOMAIN suggestions'
                          /\ suggestions'[slot].value = typed
      ]_vars

\* C27 as stated: for every retries, func is called at most retries + 1
\* times, and the provider error is re-raised once retries + 1 calls have
\* failed.
RetriesPlusOneCalls ==
    /\ fres.calls <= farg.retries + 1
    /\ fres.outcome = "GoogleAPICallError" => fres.calls = farg.retries + 1

\* C27 amended: _with_retries terminates; func is called at most
\* max(retries, 0) + 1 times; a call that returns ends the loop with its
\* result and any other exception ends it at once; the provider error is
\* re-raised when max(retries, 0) + 1 calls have failed; the delays slept
\* are min(2^attempt, 8) seconds before retry number attempt, one per
\* failed call that is retried.
RetriesBounded ==
    /\ [](/\ fres.calls <= Max({farg.retries, 0}) + 1
          /\ fres.slept = [i \in 1..Len(fres.slept) |-> Min({2 ^ i, 8})]
          /\ fres.attempt = IF fres.outcome \in {"returned", "Exception"}
                            THEN fres.calls - 1 ELSE fres.calls
          /\ Len(fres.slept) = IF fres.outcome = "GoogleAPICallError"
                               THEN fres.attempt - 1 ELSE fres.attempt
          /\ fres.outcome = "GoogleAPICallError" =>
                fres.calls = Max({farg.retries, 0}) + 1
          /\ (fpc = "done") = (fres.outcome # "none"))
    /\ [][fpc = "done" => UNCHANGED fres]_vars
    /\ <>(fpc = "done")

\* four retries were slept for and the fifth call has returned
RetriesBoundedWitness ==
    /\ fpc = "done"
    /\ farg.retries = 5
    /\ fres.outcome = "returned"
    /\ fres.calls = 5
    /\ fres.slept = <<2, 4, 8, 8>>

\* C28: the poll's watchdog marks a job failed only after the job_timeout
\* the queue granted at enqueue has run out: when the poll decides that a
\* job is stale while a worker run of that job is still under way, more
\* than the granted job_timeout has passed since started_at -- the
\* staleness limit OCR_TIMEOUT_SECONDS + 120 is not smaller than
\* max(600, OCR_TIMEOUT_SECONDS + 120).
WatchdogAfterQueueTimeout ==
    [][(/\ ppc = "start"
        /\ ppc' = "write"
        /\ pid \in DOMAIN enqueued
        /\ wpc # "idle"
        /\ wid = pid)
          => /\ WatchdogLimit >= enqueued[pid]
             /\ clock - db[pid].started_at > enqueued[pid]]_vars

\* C29: in every reachable state, a job whose status is done has its
\* field_suggestions_json, ocr_raw_json and finished_at set: the success
\* write stores them with the status in one commit and neither a later
\* delivery, a failure write nor the watchdog's marking clears them.
DoneHasResults ==
    \A j \in DOMAIN db :
        db[j].status = "done" =>
            /\ db[j].field_suggestions_json # NULL
            /\ db[j].ocr_raw_json # NULL
            /\ db[j].finished_at # NoTime

\* a job is done although the watchdog had marked it failed before, and
\* the worker has been handed it more than once
DoneHasResultsWitness ==
    /\ "j1" \in DOMAIN db
    /\ db["j1"].status = "done"
    /\ db["j1"].error_message = TIMEOUT_MESSAGE
    /\ deliveries >= 2

\* C30: _line_confidence returns the confidence of the OCR item whose text
\* matches the line best (the first of the best, 0.4 for a missing
\* confidence, times 0.7 when the score is under 70), also when the list
\* holds items with an empty text: the position of the best match among
\* the non-empty texts designates that very item in ocr_items.
BestMatchingItem(line, items) ==
    With({i \in 1..Len(items) : items[i].text # <<>>}, LAMBDA texts :
        CHOOSE i \in texts :
            \A j \in texts :
                /\ ~ScoreGreater(token_set_ratio(line, items[j].text),
                                 token_set_ratio(line, items[i].text))
                /\ j < i => ScoreGreater(token_set_ratio(line, items[i].text),
                                         token_set_ratio(line, items[j].text)))

ConfidenceOfBestItem ==
    (/\ fpc = "done"
     /\ \E i \in 1..Len(farg.items) : farg.items[i].text # <<>>)
    => With(farg.items[BestMatchingItem(farg.line, farg.items)], LAMBDA item :
           fres = IF ScoreAtLeast(token_set_ratio(farg.line, item.text), 70)
                  THEN item.confidence
                  ELSE (item.confidence * 7) \div 10)

====
